---- MODULE Spec2Model ----
(***************************************************************************)
(* A model of snagbot (mcncl/snagbot): the per-channel configuration       *)
(* store (in-memory map and Redis backed), the message pipeline that       *)
(* converts dollar amounts, the slash-command layer, and the HTTP wiring.  *)
(*                                                                         *)
(* Text is a sequence of one-character strings.  Money is an integer       *)
(* number of cents; the float64 value NaN is the distinguished value NaN.  *)
(***************************************************************************)
EXTENDS Integers, Sequences, FiniteSets, TLC

VARIABLES
    backend,      \* which ChannelConfigStore NewSlackService selected: "memory" or "redis"
    cfg,          \* the *config.Config the store was built with (NilCfg when nil)
    configs,      \* InMemoryConfigStore.configs : map channel id -> ChannelConfig
    rdb,          \* the Redis keyspace under keyBase : channel id -> stored JSON document
    rget,         \* the RedisConfigStore.GetConfig call in flight (between EXISTS and GET)
    last,         \* the most recent completed call: operation, arguments, results
    lastMut,      \* per channel, the most recent successful change of its entry
    posted,       \* the SlackAPI.PostMessage calls made by the most recent call
    cmdConfigs,   \* the configs map of the store command.CommandHandler builds for itself
    mutex,        \* InMemoryConfigStore.mutex: the writer holding it and the readers
    threads,      \* the goroutines calling the in-memory store: position, arguments, result
    issued        \* the <<name, price>> pairs UpdateConfig was called with so far

vars == <<backend, cfg, configs, rdb, rget, last, lastMut, posted,
          cmdConfigs, mutex, threads, issued>>

\* the state of the goroutine-level view of the in-memory store
concVars == <<mutex, threads, issued>>

----------------------------------------------------------------------------
(* Bounds and input domains *)

\* number of distinct non-empty channel ids
NumChannels == 2

ChannelNames == <<"C1", "C2", "C3", "C4">>

\* channel ids a caller can pass; "" is what r.Form.Get gives when the field is absent
ChannelIDs == {""} \cup {ChannelNames[i] : i \in 1..NumChannels}

NaN == -999999

NameCoffee == <<"c","o","f","f","e","e">>
NameCandy == <<"c","a","n","d","y">>
EmptyName == <<>>

\* <<item name, item price in cents>> pairs passed to UpdateConfig
UpdateInputs ==
    {<<NameCoffee, 500>>, <<NameCandy, 200>>, <<EmptyName, 500>>,
     <<NameCoffee, 0>>, <<NameCoffee, -100>>, <<NameCoffee, NaN>>}

\* the pairs passed to the Redis store's UpdateConfig
RedisUpdateInputs ==
    {<<NameCoffee, 500>>, <<NameCandy, 200>>, <<NameCoffee, 0>>, <<NameCoffee, NaN>>}

----------------------------------------------------------------------------
(* float64 comparisons: every ordered comparison with NaN is false *)

FLe0(p) == p # NaN /\ p <= 0

FGt0(p) == p # NaN /\ p > 0

FLt(a, b) == a # NaN /\ b # NaN /\ a < b

----------------------------------------------------------------------------
(* config.Config and models.ChannelConfig *)

NilCfg == [nil |-> TRUE]

NilConfig == [nil |-> TRUE]

BunningsSnags == <<"B","u","n","n","i","n","g","s"," ","s","n","a","g","s">>

BunningsSnag == <<"B","u","n","n","i","n","g","s"," ","S","n","a","g">>

DefaultPriceCents == 350

\* config.New()
AppCfg == [DefaultItemName |-> BunningsSnag, DefaultItemPrice |-> DefaultPriceCents]

ChannelConfig(id, name, price) ==
    [ChannelID |-> id, ItemName |-> name, ItemPrice |-> price]

ErrNone == "nil"

\* the record of a completed call
Call(op, ch, name, price, arg, err, ret, out) ==
    [op |-> op, ch |-> ch, name |-> name, price |-> price, arg |-> arg,
     err |-> err, ret |-> ret, out |-> out]

NoCall == Call("none", "", EmptyName, 0, FALSE, ErrNone, NilConfig, FALSE)

Mut(kind, name, price) == [kind |-> kind, name |-> name, price |-> price]

\* no entry was written since the start or since the last ResetConfig
NoMut == Mut("clear", EmptyName, 0)

----------------------------------------------------------------------------
(* InMemoryConfigStore, each method taken as one step (it holds s.mutex) *)

\* the defaults GetConfig falls back to
MemDefaultConfig(c, channelID) ==
    IF c = NilCfg
    THEN ChannelConfig(channelID, BunningsSnags, DefaultPriceCents)
    ELSE ChannelConfig(channelID, c.DefaultItemName, c.DefaultItemPrice)

\* GetConfig: <<config, error>>
MemGetConfig(m, c, channelID) ==
    IF channelID = "" THEN <<NilConfig, "ErrInvalidRequest">>
    ELSE IF channelID \in DOMAIN m
         THEN <<ChannelConfig(m[channelID].ChannelID, m[channelID].ItemName,
                              m[channelID].ItemPrice), ErrNone>>
         ELSE <<MemDefaultConfig(c, channelID), ErrNone>>

\* faulty variant: UpdateConfig without the check of the price
MemUpdateCheckNoPrice(channelID, itemName, itemPrice) ==
    IF channelID = "" THEN "ErrInvalidRequest"
    ELSE IF itemName = EmptyName THEN "ErrInvalidRequest"
    ELSE ErrNone

\* the error UpdateConfig returns before it takes the lock, or ErrNone
MemUpdateCheck(channelID, itemName, itemPrice) ==
    IF channelID = "" THEN "ErrInvalidRequest"
    ELSE IF FLe0(itemPrice) THEN "ErrInvalidRequest"
    ELSE IF itemName = EmptyName THEN "ErrInvalidRequest"
    ELSE ErrNone

MapPut(m, k, v) == [x \in DOMAIN m \cup {k} |-> IF x = k THEN v ELSE m[x]]

MapDelete(m, k) == [x \in DOMAIN m \ {k} |-> m[x]]

\* faulty variant: GetConfig keeps the default it hands out
MemGetConfigMapPersist(m, c, channelID) ==
    IF channelID = "" \/ channelID \in DOMAIN m THEN m
    ELSE MapPut(m, channelID, MemDefaultConfig(c, channelID))

\* the map after GetConfig: the default it hands out is not put in the map
MemGetConfigMap(m, c, channelID) == m

\* faulty variant: UpdateConfig writes the name and price into every entry of the map
MemUpdateConfigAll(m, channelID, itemName, itemPrice) ==
    IF MemUpdateCheck(channelID, itemName, itemPrice) # ErrNone THEN m
    ELSE [x \in DOMAIN m \cup {channelID} |-> ChannelConfig(x, itemName, itemPrice)]

\* the map after UpdateConfig
MemUpdateConfig(m, channelID, itemName, itemPrice) ==
    IF MemUpdateCheck(channelID, itemName, itemPrice) # ErrNone THEN m
    ELSE IF channelID \in DOMAIN m
         THEN MapPut(m, channelID,
                     ChannelConfig(m[channelID].ChannelID, itemName, itemPrice))
         ELSE MapPut(m, channelID, ChannelConfig(channelID, itemName, itemPrice))

MemResetCheck(channelID) ==
    IF channelID = "" THEN "ErrInvalidRequest" ELSE ErrNone

\* faulty variant: ResetConfig of a channel without an entry empties the map
MemResetConfigClearAll(m, channelID) ==
    IF MemResetCheck(channelID) # ErrNone THEN m
    ELSE IF channelID \notin DOMAIN m THEN <<>>
    ELSE MapDelete(m, channelID)

\* the map after ResetConfig
MemResetConfig(m, channelID) ==
    IF MemResetCheck(channelID) # ErrNone THEN m
    ELSE IF channelID \notin DOMAIN m THEN m
    ELSE MapDelete(m, channelID)

MemConfigExists(m, channelID) ==
    IF channelID = "" THEN FALSE ELSE channelID \in DOMAIN m

MemGetAllChannelIDs(m) == DOMAIN m

MemCount(m) == Cardinality(DOMAIN m)

\* BackupConfigs: a copy of every entry
MemBackupConfigs(m) == [x \in DOMAIN m |-> m[x]]

\* RestoreConfigs: the map is replaced by a copy of the backup
MemRestoreConfigs(m, backup) == [x \in DOMAIN backup |-> backup[x]]

----------------------------------------------------------------------------
(* Text helpers *)

Digits == <<"0","1","2","3","4","5","6","7","8","9">>

DigitSet == {Digits[i] : i \in 1..10}

\* the value of each digit character
DigitMap == [ch \in DigitSet |-> (CHOOSE i \in 1..10 : Digits[i] = ch) - 1]

IsDigit(ch) == ch \in DigitSet

DigitVal(ch) == DigitMap[ch]

UpperAlpha == <<"A","B","C","D","E","F","G","H","I","J","K","L","M",
                "N","O","P","Q","R","S","T","U","V","W","X","Y","Z">>

LowerAlpha == <<"a","b","c","d","e","f","g","h","i","j","k","l","m",
                "n","o","p","q","r","s","t","u","v","w","x","y","z">>

\* strings.ToLower on one character
LowerMap ==
    [ch \in {UpperAlpha[i] : i \in 1..26} |->
        LowerAlpha[CHOOSE i \in 1..26 : UpperAlpha[i] = ch]]

LowerChar(ch) == IF ch \in DOMAIN LowerMap THEN LowerMap[ch] ELSE ch

ToLower(s) == [i \in 1..Len(s) |-> LowerChar(s[i])]

HasPrefix(s, p) == Len(s) >= Len(p) /\ SubSeq(s, 1, Len(p)) = p

HasSuffix(s, p) == Len(s) >= Len(p) /\ SubSeq(s, Len(s) - Len(p) + 1, Len(s)) = p

\* s[:len(s)-n]
DropLast(s, n) == SubSeq(s, 1, Len(s) - n)

\* the value of a string of decimal digits
RECURSIVE DigitsVal(_)
DigitsVal(s) ==
    IF s = <<>> THEN 0
    ELSE 10 * DigitsVal(DropLast(s, 1)) + DigitVal(s[Len(s)])

\* strconv.Itoa for n >= 0
RECURSIVE Itoa(_)
Itoa(n) ==
    IF n < 10 THEN <<Digits[n + 1]>>
    ELSE Itoa(n \div 10) \o <<Digits[(n % 10) + 1]>>

----------------------------------------------------------------------------
(* package calculator *)

\* the end of the match of \$([0-9]+(\.[0-9]{1,2})?) that starts at i, or 0
RECURSIVE DigitsEnd(_, _)
DigitsEnd(text, j) ==
    IF j + 1 <= Len(text) /\ IsDigit(text[j + 1]) THEN DigitsEnd(text, j + 1) ELSE j

\* faulty variant: the match without the optional fraction
MatchEndNoFraction(text, i) ==
    IF ~(i + 1 <= Len(text) /\ text[i] = "$" /\ IsDigit(text[i + 1])) THEN 0
    ELSE DigitsEnd(text, i + 1)

MatchEnd(text, i) ==
    IF ~(i + 1 <= Len(text) /\ text[i] = "$" /\ IsDigit(text[i + 1])) THEN 0
    ELSE LET j == DigitsEnd(text, i + 1)
         IN  IF j + 2 <= Len(text) /\ text[j + 1] = "." /\ IsDigit(text[j + 2])
             THEN IF j + 3 <= Len(text) /\ IsDigit(text[j + 3]) THEN j + 3 ELSE j + 2
             ELSE j

\* regexp.FindAllStringSubmatch: the leftmost non-overlapping matches, as <<start, end>>
RECURSIVE FindAll(_, _)
FindAll(text, i) ==
    IF i > Len(text) THEN <<>>
    ELSE IF MatchEnd(text, i) = 0 THEN FindAll(text, i + 1)
    ELSE <<<<i, MatchEnd(text, i)>>>> \o FindAll(text, MatchEnd(text, i) + 1)

\* strconv.ParseFloat on digits with an optional fraction of one or two digits, in cents
AmountCents(tok) ==
    LET dot == IF \E k \in 1..Len(tok) : tok[k] = "."
               THEN CHOOSE k \in 1..Len(tok) : tok[k] = "." ELSE Len(tok) + 1
        whole == DigitsVal(SubSeq(tok, 1, dot - 1))
        frac == SubSeq(tok, dot + 1, Len(tok))
    IN  100 * whole
        + (IF Len(frac) = 0 THEN 0
           ELSE IF Len(frac) = 1 THEN 10 * DigitsVal(frac) ELSE DigitsVal(frac))

\* faulty variant: the loop of ExtractDollarValues without the seen map
RECURSIVE ExtractFromNoDedupe(_, _, _, _)
ExtractFromNoDedupe(text, ms, k, seen) ==
    IF k > Len(ms) THEN <<>>
    ELSE <<AmountCents(SubSeq(text, ms[k][1] + 1, ms[k][2]))>>
         \o ExtractFromNoDedupe(text, ms, k + 1, seen)

\* the loop of ExtractDollarValues over the matches from k on: a token already seen is skipped
RECURSIVE ExtractFrom(_, _, _, _)
ExtractFrom(text, ms, k, seen) ==
    IF k > Len(ms) THEN <<>>
    ELSE LET whole == SubSeq(text, ms[k][1], ms[k][2])
             group == SubSeq(text, ms[k][1] + 1, ms[k][2])
         IN  IF whole \in seen THEN ExtractFrom(text, ms, k + 1, seen)
             ELSE <<AmountCents(group)>> \o ExtractFrom(text, ms, k + 1, seen \cup {whole})

ExtractDollarValues(text) ==
    IF text = <<>> THEN <<>> ELSE ExtractFrom(text, FindAll(text, 1), 1, {})

\* SumDollarValues: the sum, rounded to whole cents
RECURSIVE SumDollarValues(_)
SumDollarValues(values) ==
    IF values = <<>> THEN 0
    ELSE values[Len(values)] + SumDollarValues(DropLast(values, 1))

\* float64 division total / pricePerItem of two cent amounts where the exact quotient
\* is a whole number but the float64 quotient is the next float below it (all such pairs
\* with a total of at most 110 cents at the prices used here; the larger totals used
\* here divide without error)
QuotientBelow ==
    {<<30, 10>>, <<60, 10>>, <<70, 10>>,
     <<29, 1>>, <<47, 1>>, <<57, 1>>, <<58, 1>>, <<59, 1>>, <<94, 1>>}

\* ... or the next float above it
QuotientAbove == {<<7, 1>>, <<14, 1>>, <<28, 1>>, <<56, 1>>}

\* faulty variant: CalculateItemCount without the check of a negative total
CalculateItemCountNoTotalCheck(total, pricePerItem) ==
    IF FLe0(pricePerItem) THEN <<0, "ErrInvalidDollarValue">>
    ELSE IF pricePerItem = NaN THEN <<NaN, ErrNone>>
    ELSE IF total % pricePerItem = 0 THEN <<total \div pricePerItem, ErrNone>>
    ELSE <<(total \div pricePerItem) + 1, ErrNone>>

\* CalculateItemCount: <<count, error>>
CalculateItemCount(total, pricePerItem) ==
    IF total # NaN /\ total < 0 THEN <<0, "ErrInvalidDollarValue">>
    ELSE IF FLe0(pricePerItem) THEN <<0, "ErrInvalidDollarValue">>
    ELSE IF pricePerItem = NaN THEN <<NaN, ErrNone>>
    ELSE IF total % pricePerItem = 0
         THEN IF <<total, pricePerItem>> \in QuotientAbove
              THEN <<(total \div pricePerItem) + 1, ErrNone>>
              ELSE <<total \div pricePerItem, ErrNone>>
         ELSE <<(total \div pricePerItem) + 1, ErrNone>>

IsExactDivision(total, pricePerItem) ==
    IF FLe0(pricePerItem) THEN FALSE
    ELSE IF pricePerItem = NaN THEN FALSE
    ELSE /\ total % pricePerItem = 0
         /\ <<total, pricePerItem>> \notin (QuotientBelow \cup QuotientAbove)

S_s == <<"s">>
S_y == <<"y">>
S_es == <<"e","s">>
S_ies == <<"i","e","s">>

getSingularForm(itemName) ==
    IF HasSuffix(ToLower(itemName), S_s)
    THEN IF HasSuffix(ToLower(itemName), S_ies) THEN DropLast(itemName, 3) \o S_y
         ELSE IF HasSuffix(ToLower(itemName), S_es) THEN DropLast(itemName, 2)
         ELSE DropLast(itemName, 1)
    ELSE itemName

getPluralForm(itemName) ==
    IF HasSuffix(ToLower(itemName), S_s) THEN itemName
    ELSE IF HasSuffix(ToLower(itemName), S_y) THEN DropLast(itemName, 1) \o S_ies
    ELSE itemName \o S_s

S_item == <<"i","t","e","m">>
S_WouldntBuy == <<"T","h","a","t"," ","w","o","u","l","d","n","'","t"," ","e","v","e","n"," ","b","u","y"," ","a"," ","s","i","n","g","l","e"," ">>
S_Thats == <<"T","h","a","t","'","s"," ">>
S_ThatsNearly == <<"T","h","a","t","'","s"," ","n","e","a","r","l","y"," ">>
S_one == <<"1"," ">>
S_bang == <<"!">>
S_space == <<" ">>

\* faulty variant: FormatResponse that never says "nearly"
FormatResponseNeverNearly(count, itemName, isExactDivision) ==
    LET name == IF itemName = <<>> THEN S_item ELSE itemName
    IN  IF count <= 0 THEN S_WouldntBuy \o getSingularForm(name) \o S_bang
        ELSE IF count = 1 THEN S_Thats \o S_one \o getSingularForm(name) \o S_bang
        ELSE S_Thats \o Itoa(count) \o S_space \o getPluralForm(name) \o S_bang

FormatResponse(count, itemName, isExactDivision) ==
    LET name == IF itemName = <<>> THEN S_item ELSE itemName
        prefix == IF isExactDivision THEN S_Thats ELSE S_ThatsNearly
    IN  IF count <= 0 THEN S_WouldntBuy \o getSingularForm(name) \o S_bang
        ELSE IF count = 1 THEN prefix \o S_one \o getSingularForm(name) \o S_bang
        ELSE prefix \o Itoa(count) \o S_space \o getPluralForm(name) \o S_bang

\* the item name ProcessMessage formats with
BunningsSnagItem == <<"B","u","n","n","i","n","g","s"," ","s","n","a","g">>

\* faulty variant: ProcessMessage without the case of a total below the price
ProcessMessageNoZeroCase(text, pricePerItem) ==
    LET values == ExtractDollarValues(text)
        total == SumDollarValues(values)
        count == CalculateItemCount(total, pricePerItem)
    IN  IF Len(values) = 0 THEN <<<<>>, ErrNone>>
        ELSE IF count[2] # ErrNone THEN <<<<>>, count[2]>>
        ELSE <<FormatResponse(count[1], BunningsSnagItem,
                              IsExactDivision(total, pricePerItem)), ErrNone>>

\* ProcessMessage: <<response, error>>
ProcessMessage(text, pricePerItem) ==
    LET values == ExtractDollarValues(text)
        total == SumDollarValues(values)
        count == CalculateItemCount(total, pricePerItem)
    IN  IF Len(values) = 0 THEN <<<<>>, ErrNone>>
        ELSE IF FLt(total, pricePerItem)
        THEN <<FormatResponse(0, BunningsSnagItem, TRUE), ErrNone>>
        ELSE IF count[2] # ErrNone THEN <<<<>>, count[2]>>
        ELSE <<FormatResponse(count[1], BunningsSnagItem,
                              IsExactDivision(total, pricePerItem)), ErrNone>>

----------------------------------------------------------------------------
(* RedisConfigStore.  Redis answers every command (no connection failure);   *)
(* a key written with a TTL disappears when the TTL runs out.               *)

KeyBase == "snagbot:channel_config:"

getConfigKey(channelID) == KeyBase \o channelID

\* json.Marshal of a ChannelConfig: <<document, error>>; NaN has no JSON form
MarshalConfig(config) ==
    IF config.ItemPrice = NaN THEN <<[nil |-> TRUE], "UnsupportedValueError">>
    ELSE <<[channel_id |-> config.ChannelID, item_name |-> config.ItemName,
            item_price |-> config.ItemPrice], ErrNone>>

\* json.Unmarshal into a ChannelConfig
UnmarshalConfig(doc) == ChannelConfig(doc.channel_id, doc.item_name, doc.item_price)

\* EXISTS key
RedisExists(db, key) == key \in DOMAIN db

\* the error UpdateConfig returns
RedisUpdateCheck(channelID, itemName, itemPrice) ==
    MarshalConfig(ChannelConfig(channelID, itemName, itemPrice))[2]

\* the keyspace after UpdateConfig (SET key json EX 30 days)
RedisUpdateConfig(db, channelID, itemName, itemPrice) ==
    IF RedisUpdateCheck(channelID, itemName, itemPrice) # ErrNone THEN db
    ELSE MapPut(db, getConfigKey(channelID),
                MarshalConfig(ChannelConfig(channelID, itemName, itemPrice))[1])

\* faulty variant: ResetConfig leaves the key in place
RedisResetConfigNoop(db, channelID) == db

\* the keyspace after ResetConfig (DEL key)
RedisResetConfig(db, channelID) == MapDelete(db, getConfigKey(channelID))

RedisConfigExists(db, channelID) == RedisExists(db, getConfigKey(channelID))

RedisDefaultConfig(c, channelID) ==
    ChannelConfig(channelID, c.DefaultItemName, c.DefaultItemPrice)

\* the second half of GetConfig (GET key, Unmarshal): <<config, error>>
RedisGetStored(db, channelID) ==
    IF getConfigKey(channelID) \in DOMAIN db
    THEN <<UnmarshalConfig(db[getConfigKey(channelID)]), ErrNone>>
    ELSE <<NilConfig, "redis.Nil">>

\* GetConfig when no other command comes between its EXISTS and its GET
RedisGetConfig(db, c, channelID) ==
    IF ~RedisExists(db, getConfigKey(channelID))
    THEN <<RedisDefaultConfig(c, channelID), ErrNone>>
    ELSE RedisGetStored(db, channelID)

----------------------------------------------------------------------------
(* ChannelConfigStore, the interface both stores implement *)

StoreGetConfig(channelID) ==
    IF backend = "memory" THEN MemGetConfig(configs, cfg, channelID)
    ELSE RedisGetConfig(rdb, cfg, channelID)

StoreConfigExists(channelID) ==
    IF backend = "memory" THEN MemConfigExists(configs, channelID)
    ELSE RedisConfigExists(rdb, channelID)

----------------------------------------------------------------------------
(* ProcessMessageEvent and HandleErrorWithResponse *)

NilEvent == [nil |-> TRUE]

MessageEvent(channel, text, ts, botID, subType) ==
    [Channel |-> channel, Text |-> text, TimeStamp |-> ts,
     BotID |-> botID, SubType |-> subType]

SlackResponse(channelID, text, threadTS) ==
    [ChannelID |-> channelID, Text |-> text, ThreadTS |-> threadTS]

S_Oops == <<"O","o","p","s","!"," ","S","o","m","e","t","h","i","n","g"," ","w","e","n","t"," ","w","r","o","n","g","."," ","I"," ","c","o","u","l","d","n","'","t"," ","p","r","o","c","e","s","s"," ","t","h","a","t"," ","m","e","s","s","a","g","e"," ","p","r","o","p","e","r","l","y",".">>

\* faulty variant: the apology posted to the channel, outside the thread
ErrorResponseUnthreaded(ev) == SlackResponse(ev.Channel, S_Oops, "")

\* the message HandleErrorWithResponse posts
ErrorResponse(ev) == SlackResponse(ev.Channel, S_Oops, ev.TimeStamp)

\* what one call does: the PostMessage calls, the error returned, the store reads made
Outcome(posts, err, reads) == [posts |-> posts, err |-> err, reads |-> reads]

\* faulty variant: ProcessMessageEvent without the skip of message_changed events
ProcessMessageEventNoEditSkip(ev, get, apiErr) ==
    IF ev = NilEvent THEN Outcome(<<>>, "ErrInvalidRequest", 0)
    ELSE IF ev.BotID # "" \/ ev.SubType = "bot_message" THEN Outcome(<<>>, ErrNone, 0)
    ELSE IF get[2] # ErrNone THEN Outcome(<<ErrorResponse(ev)>>, get[2], 1)
    ELSE LET config == get[1]
             dollarValues == ExtractDollarValues(ev.Text)
             total == SumDollarValues(dollarValues)
             count == CalculateItemCount(total, config.ItemPrice)
         IN  IF Len(dollarValues) = 0 THEN Outcome(<<>>, ErrNone, 1)
             ELSE IF FLt(total, config.ItemPrice)
             THEN Outcome(<<SlackResponse(ev.Channel,
                                          FormatResponse(0, config.ItemName, TRUE),
                                          ev.TimeStamp)>>, apiErr, 1)
             ELSE IF count[2] # ErrNone
             THEN Outcome(<<ErrorResponse(ev)>>, count[2], 1)
             ELSE Outcome(<<SlackResponse(ev.Channel,
                                          FormatResponse(count[1], config.ItemName,
                                              IsExactDivision(total, config.ItemPrice)),
                                          ev.TimeStamp)>>, apiErr, 1)

\* get is the answer of configStore.GetConfig(ev.Channel), apiErr that of api.PostMessage
ProcessMessageEvent(ev, get, apiErr) ==
    IF ev = NilEvent THEN Outcome(<<>>, "ErrInvalidRequest", 0)
    ELSE IF ev.BotID # "" \/ ev.SubType = "bot_message" THEN Outcome(<<>>, ErrNone, 0)
    ELSE IF ev.SubType = "message_changed" THEN Outcome(<<>>, ErrNone, 0)
    ELSE IF get[2] # ErrNone THEN Outcome(<<ErrorResponse(ev)>>, get[2], 1)
    ELSE LET config == get[1]
             dollarValues == ExtractDollarValues(ev.Text)
             total == SumDollarValues(dollarValues)
             count == CalculateItemCount(total, config.ItemPrice)
         IN  IF Len(dollarValues) = 0 THEN Outcome(<<>>, ErrNone, 1)
             ELSE IF FLt(total, config.ItemPrice)
             THEN Outcome(<<SlackResponse(ev.Channel,
                                          FormatResponse(0, config.ItemName, TRUE),
                                          ev.TimeStamp)>>, apiErr, 1)
             ELSE IF count[2] # ErrNone
             THEN Outcome(<<ErrorResponse(ev)>>, count[2], 1)
             ELSE Outcome(<<SlackResponse(ev.Channel,
                                          FormatResponse(count[1], config.ItemName,
                                              IsExactDivision(total, config.ItemPrice)),
                                          ev.TimeStamp)>>, apiErr, 1)

----------------------------------------------------------------------------
(* ParseConfigCommand and the responses of the slash command                *)

IsSpace(ch) == ch \in {" ", "\t", "\n", "\r"}

RECURSIVE TrimLeft(_)
TrimLeft(s) == IF s # <<>> /\ IsSpace(s[1]) THEN TrimLeft(Tail(s)) ELSE s

RECURSIVE TrimRight(_)
TrimRight(s) == IF s # <<>> /\ IsSpace(s[Len(s)]) THEN TrimRight(DropLast(s, 1)) ELSE s

\* strings.TrimSpace
TrimSpace(s) == TrimRight(TrimLeft(s))

\* regexp \s+ replaced by one space
RECURSIVE CollapseSpace(_)
CollapseSpace(s) ==
    IF s = <<>> THEN <<>>
    ELSE IF IsSpace(s[1]) THEN <<" ">> \o CollapseSpace(TrimLeft(s))
    ELSE <<s[1]>> \o CollapseSpace(Tail(s))

\* s[n:]
DropFirst(s, n) == SubSeq(s, n + 1, Len(s))

\* the first index >= from at which ch stands in s, or 0
IndexFrom(s, ch, from) ==
    IF \E i \in from..Len(s) : s[i] = ch
    THEN CHOOSE i \in from..Len(s) : s[i] = ch /\ \A j \in from..(i - 1) : s[j] # ch
    ELSE 0

IsDigits(s) == \A i \in 1..Len(s) : IsDigit(s[i])

S_nan == <<"n","a","n">>

\* strconv.ParseFloat(s, 64): <<value in cents, error>>, for "NaN" in any case and for
\* signed decimal numerals of at most two fraction digits; every other text the model
\* is given is not a number
ParseFloat(s) ==
    IF ToLower(s) = S_nan THEN <<NaN, ErrNone>>
    ELSE LET neg == s # <<>> /\ s[1] = "-"
             body == IF s # <<>> /\ s[1] \in {"-", "+"} THEN Tail(s) ELSE s
             dot == IndexFrom(body, ".", 1)
             whole == IF dot = 0 THEN body ELSE SubSeq(body, 1, dot - 1)
             frac == IF dot = 0 THEN <<>> ELSE SubSeq(body, dot + 1, Len(body))
         IN  IF IsDigits(whole) /\ IsDigits(frac) /\ Len(whole) + Len(frac) > 0
                /\ Len(frac) <= 2
             THEN <<(IF neg THEN -1 ELSE 1) * AmountCents(body), ErrNone>>
             ELSE <<0, "ErrSyntax">>

\* CommandParseResult and the error returned with it
ParseResult(name, price, err, detail) ==
    [ItemName |-> name, ItemPrice |-> price, err |-> err, detail |-> detail]

S_price == <<"p","r","i","c","e">>

\* ParseConfigCommand from the price keyword on
ParsePriceValue(itemName, remainingText) ==
    IF itemName = <<>> THEN ParseResult(<<>>, 0, "ErrMissingItem", "")
    ELSE IF remainingText = <<>> THEN ParseResult(<<>>, 0, "ErrMissingPrice", "")
    ELSE IF ~HasPrefix(ToLower(remainingText), S_price)
    THEN ParseResult(<<>>, 0, "ErrInvalidCommand",
                     "expected 'price' keyword after item name")
    ELSE LET priceText == TrimSpace(DropFirst(remainingText, Len(S_price)))
             f == ParseFloat(priceText)
         IN  IF priceText = <<>> THEN ParseResult(<<>>, 0, "ErrMissingPrice", "")
             ELSE IF f[2] # ErrNone
             THEN ParseResult(<<>>, 0, "ErrInvalidPrice", "is not a valid number")
             ELSE IF FLe0(f[1]) THEN ParseResult(<<>>, 0, "ErrInvalidPrice", "")
             ELSE ParseResult(itemName, f[1], ErrNone, "")

\* ParseConfigCommand from the item name on: a quoted name or the first word
ParseItemName(commandText) ==
    IF HasPrefix(commandText, <<"\"">>)
    THEN LET close == IndexFrom(commandText, "\"", 2)
         IN  IF close >= 3
             THEN ParsePriceValue(SubSeq(commandText, 2, close - 1),
                                  TrimSpace(DropFirst(commandText, close)))
             ELSE ParseResult(<<>>, 0, "ErrInvalidCommand", "unclosed quote in item name")
    ELSE LET sp == IndexFrom(commandText, " ", 1)
             first == IF sp = 0 THEN commandText ELSE SubSeq(commandText, 1, sp - 1)
             rest == IF sp = 0 THEN <<>> ELSE TrimSpace(DropFirst(commandText, sp))
         IN  IF first = <<>> \/ HasPrefix(ToLower(first), S_price)
             THEN ParseResult(<<>>, 0, "ErrMissingItem", "")
             ELSE ParsePriceValue(first, rest)

ParseConfigCommand(commandText) ==
    LET text == CollapseSpace(TrimSpace(commandText))
    IN  IF ~HasPrefix(ToLower(text), S_item)
        THEN ParseResult(<<>>, 0, "ErrInvalidCommand", "command must start with 'item'")
        ELSE LET rest == TrimSpace(DropFirst(text, Len(S_item)))
             IN  IF HasPrefix(ToLower(rest), S_price)
                 THEN ParseResult(<<>>, 0, "ErrMissingItem", "")
                 ELSE ParseItemName(rest)

S_NaNText == <<"N","a","N">>

\* fmt.Sprintf("%.2f", price) of an amount of whole cents
FormatPrice(price) ==
    IF price = NaN THEN S_NaNText
    ELSE LET a == IF price < 0 THEN -price ELSE price
         IN  (IF price < 0 THEN <<"-">> ELSE <<>>) \o Itoa(a \div 100) \o <<".">>
             \o <<Digits[((a % 100) \div 10) + 1], Digits[(a % 10) + 1]>>

S_AtDollar == <<" ","(","a","t"," ","$">>
S_Each == <<" ","e","a","c","h",")",".">>
S_Updated == <<"C","o","n","f","i","g","u","r","a","t","i","o","n"," ","u","p","d","a","t","e","d","!"," ","N","o","w"," ","c","o","n","v","e","r","t","i","n","g"," ","d","o","l","l","a","r"," ","a","m","o","u","n","t","s"," ","t","o"," ">>
S_ResetDone == <<"C","o","n","f","i","g","u","r","a","t","i","o","n"," ","h","a","s"," ","b","e","e","n"," ","r","e","s","e","t","!"," ","N","o","w"," ","u","s","i","n","g"," ","t","h","e"," ","d","e","f","a","u","l","t"," ","i","t","e","m",":"," ">>
S_Current == <<"C","u","r","r","e","n","t"," ","c","o","n","f","i","g","u","r","a","t","i","o","n",":"," ">>
S_UsingDefault == <<"T","h","i","s"," ","c","h","a","n","n","e","l"," ","i","s"," ","u","s","i","n","g"," ","t","h","e"," ","d","e","f","a","u","l","t"," ","c","o","n","f","i","g","u","r","a","t","i","o","n",":"," ">>
S_ErrorPrefix == <<"E","r","r","o","r",":"," ">>
\* (the two back quotes of the source text are written as apostrophes)
S_TryHelp == <<"\n","\n","T","r","y"," ","'","/","s","n","a","g","b","o","t"," ","h","e","l","p","'"," ","f","o","r"," ","u","s","a","g","e"," ","i","n","f","o","r","m","a","t","i","o","n",".">>
S_FailedParse == <<"F","a","i","l","e","d"," ","t","o"," ","p","a","r","s","e"," ","c","o","m","m","a","n","d">>
S_FailedUpdate == <<"F","a","i","l","e","d"," ","t","o"," ","u","p","d","a","t","e"," ","c","o","n","f","i","g","u","r","a","t","i","o","n">>
S_FailedReset == <<"F","a","i","l","e","d"," ","t","o"," ","r","e","s","e","t"," ","c","o","n","f","i","g","u","r","a","t","i","o","n">>
S_FailedGetDefault == <<"F","a","i","l","e","d"," ","t","o"," ","g","e","t"," ","d","e","f","a","u","l","t"," ","c","o","n","f","i","g","u","r","a","t","i","o","n">>
S_FailedGet == <<"F","a","i","l","e","d"," ","t","o"," ","g","e","t"," ","c","o","n","f","i","g","u","r","a","t","i","o","n">>
S_UnknownCommand == <<"U","n","k","n","o","w","n"," ","c","o","m","m","a","n","d">>
S_reset == <<"r","e","s","e","t">>
S_status == <<"s","t","a","t","u","s">>
S_help == <<"h","e","l","p">>
\* the first line of the fixed help text
S_HelpText == <<"*","S","n","a","g","B","o","t"," ","H","e","l","p","*">>

FormatCommandResponse(result) ==
    S_Updated \o result.ItemName \o S_AtDollar \o FormatPrice(result.ItemPrice) \o S_Each

\* what a subcommand gives back: the store's map, the response text, the error message
\* of the AppError (<<>> when there is no error), and the change made to the entry
CommandResult(m, response, message, mut) ==
    [configs |-> m, response |-> response, message |-> message, mut |-> mut]

NoChange == Mut("none", EmptyName, 0)

\* safeHandleConfigCommand answering without calling store.UpdateConfig
safeHandleConfigCommandNoUpdate(m, c, text, channelID) ==
    LET result == ParseConfigCommand(text)
    IN  IF result.err # ErrNone THEN CommandResult(m, <<>>, S_FailedParse, NoChange)
        ELSE IF MemUpdateCheck(channelID, result.ItemName, result.ItemPrice) # ErrNone
        THEN CommandResult(m, <<>>, S_FailedUpdate, NoChange)
        ELSE CommandResult(m, FormatCommandResponse(result), <<>>,
                           Mut("update", result.ItemName, result.ItemPrice))

safeHandleConfigCommand(m, c, text, channelID) ==
    LET result == ParseConfigCommand(text)
    IN  IF result.err # ErrNone THEN CommandResult(m, <<>>, S_FailedParse, NoChange)
        ELSE IF MemUpdateCheck(channelID, result.ItemName, result.ItemPrice) # ErrNone
        THEN CommandResult(m, <<>>, S_FailedUpdate, NoChange)
        ELSE CommandResult(MemUpdateConfig(m, channelID, result.ItemName, result.ItemPrice),
                           FormatCommandResponse(result), <<>>,
                           Mut("update", result.ItemName, result.ItemPrice))

safeHandleResetCommand(m, c, channelID) ==
    IF MemResetCheck(channelID) # ErrNone THEN CommandResult(m, <<>>, S_FailedReset, NoChange)
    ELSE LET m2 == MemResetConfig(m, channelID)
             get == MemGetConfig(m2, c, channelID)
         IN  IF get[2] # ErrNone THEN CommandResult(m2, <<>>, S_FailedGetDefault, NoMut)
             ELSE CommandResult(m2, S_ResetDone \o get[1].ItemName \o S_AtDollar
                                    \o FormatPrice(get[1].ItemPrice) \o S_Each,
                                <<>>, NoMut)

safeHandleStatusCommand(m, c, channelID) ==
    LET get == MemGetConfig(m, c, channelID)
    IN  IF get[2] # ErrNone THEN CommandResult(m, <<>>, S_FailedGet, NoChange)
        ELSE CommandResult(m,
                 (IF MemConfigExists(m, channelID) THEN S_Current ELSE S_UsingDefault)
                 \o get[1].ItemName \o S_AtDollar \o FormatPrice(get[1].ItemPrice) \o S_Each,
                 <<>>, NoChange)

handleHelpCommand(m) == CommandResult(m, S_HelpText, <<>>, NoChange)

\* the HTTP answer of the command endpoint
HttpReply(status, text) == [status |-> status, text |-> text]

\* the handler CommandHandler returns, for a verified POST: <<CommandResult, HttpReply>>
CommandHandler(m, c, command, text, channelID) ==
    LET trimmedText == TrimSpace(ToLower(text))
        r == IF trimmedText = S_reset THEN safeHandleResetCommand(m, c, channelID)
             ELSE IF trimmedText = S_status \/ trimmedText = <<>>
             THEN safeHandleStatusCommand(m, c, channelID)
             ELSE IF HasPrefix(trimmedText, S_help) THEN handleHelpCommand(m)
             ELSE safeHandleConfigCommand(m, c, text, channelID)
    IN  IF command # "/snagbot"
        THEN <<CommandResult(m, <<>>, <<>>, NoChange), HttpReply(400, S_UnknownCommand)>>
        ELSE IF r.message # <<>>
        THEN <<r, HttpReply(200, S_ErrorPrefix \o r.message \o S_TryHelp)>>
        ELSE <<r, HttpReply(200, r.response)>>

----------------------------------------------------------------------------
(* InMemoryConfigStore seen from the goroutines that call it: s.mutex and    *)
(* the statements of each method                                            *)

\* number of goroutines calling the store at the same time
NumThreads == 3

Threads == 1..NumThreads

\* the channel the goroutines all work on
ConcChannel == ChannelNames[1]

\* the <<item name, item price>> pairs they call UpdateConfig with
ConcUpdateInputs == {<<NameCoffee, 500>>, <<NameCandy, 200>>}

\* sync.RWMutex: writer is the goroutine holding Lock (0 when none), readers hold RLock
MutexFree == [writer |-> 0, readers |-> {}]

\* Lock returns
CanLock(mu) == mu.writer = 0 /\ mu.readers = {}

\* faulty variant: RLock returns while a writer holds the mutex
CanRLockAlways(mu) == TRUE

\* RLock returns
CanRLock(mu) == mu.writer = 0

\* a *models.ChannelConfig in a caller's hands: a fresh object ("" in alias, the object
\* in val), or the very object the map holds under key alias
Pointer(alias, val) == [alias |-> alias, val |-> val]

NilPointer == Pointer("", NilConfig)

\* the fields read through a pointer
Deref(p, m) == IF p.alias # "" THEN m[p.alias] ELSE p.val

\* what GetConfig returns while it holds RLock: a copy of the entry, or the defaults
GetConfigResult(m, c, channelID) == Pointer("", MemGetConfig(m, c, channelID)[1])

\* a goroutine: where it stands, the call it is in, what its last call returned
Thread(pc, op, ch, name, price, ret, err) ==
    [pc |-> pc, op |-> op, ch |-> ch, name |-> name, price |-> price,
     ret |-> ret, err |-> err]

ThreadIdle == Thread("done", "none", "", EmptyName, 0, NilPointer, ErrNone)

----------------------------------------------------------------------------
(* Inputs of the calls *)

\* the entries a backup handed to RestoreConfigs holds for channel c
BackupEntries(c) ==
    {ChannelConfig(c, NameCoffee, 500), ChannelConfig(c, NameCandy, 0)}

RealChannels == ChannelIDs \ {""}

\* maps handed to RestoreConfigs
BackupInputs ==
    UNION {{b \in [K -> UNION {BackupEntries(c) : c \in K}] :
               \A c \in K : b[c] \in BackupEntries(c)} : K \in SUBSET RealChannels}

NilBackup == [nil |-> TRUE]

T_Cost35 == <<"T","h","i","s"," ","w","o","u","l","d"," ","c","o","s","t"," ","$","3","5">>
T_Cost1 == <<"o","n","l","y"," ","$","1">>
T_NoMoney == <<"n","o"," ","m","o","n","e","y">>

T_Cost0 == <<"T","h","i","s"," ","c","o","s","t","s"," ","$","0">>

MessageTexts == {T_Cost35, T_Cost1, T_NoMoney}

Events ==
    {MessageEvent(c, t, "1623436858.000100", b, st) :
        c \in ChannelIDs, t \in MessageTexts, b \in {"", "B1"},
        st \in {"", "bot_message", "message_changed"}} \cup {NilEvent}

\* the message events sent to the event endpoint
RouterEvents ==
    {MessageEvent(c, t, "1623436858.000100", "", "") : c \in ChannelIDs, t \in MessageTexts}
    \cup {MessageEvent(ChannelNames[1], T_Cost35, "1623436858.000100", "B1", ""),
          MessageEvent(ChannelNames[1], T_Cost35, "1623436858.000100", "", "message_changed"),
          MessageEvent(ChannelNames[1], T_Cost0, "1623436858.000100", "", "")}

ApiErrors == {ErrNone, "ErrSlackAPIError"}

\* message events with another timestamp
LaterEvents ==
    {MessageEvent(c, t, "1623437000.000200", "", "") :
        c \in {"", ChannelNames[1]}, t \in {T_Cost35, T_NoMoney}}

\* texts handed to the functions of package calculator
T_Twice35 == <<"T","h","i","s"," ","c","o","s","t","s"," ","$","3","5"," ","a","n","d"," ","t","h","a","t"," ","c","o","s","t","s"," ","$","3","5">>
T_35And34 == <<"T","h","i","s"," ","c","o","s","t","s"," ","$","3","5"," ","a","n","d"," ","t","h","a","t"," ","c","o","s","t","s"," ","$","3","4">>
T_Cents7 == <<"$","0",".","0","7">>
T_Cents30 == <<"a"," ","$","0",".","3","0"," ","s","n","a","c","k">>
T_OnlyOnce == <<"$","3","5",".","5","0",".","2","5"," ","s","h","o","u","l","d"," ","o","n","l","y"," ","m","a","t","c","h"," ","$","3","5",".","5","0"," ","o","n","c","e">>
T_Embedded == <<"U","S","D","$","3","5"," ","b","e","$","2","0","p","l","e","a","s","e">>
T_Dotted == <<"$","3","5",".","5","0",".","2","5">>
T_Three5 == <<"$","5",","," ","$","5"," ","a","n","d"," ","$","5">>

CalcTexts ==
    {<<>>, T_Cost35, T_Cost1, T_NoMoney, T_Twice35, T_35And34, T_Cents7, T_Cents30,
     T_OnlyOnce, T_Three5, T_Embedded, T_Dotted}

\* the texts, the UpdateConfig pairs and the backups (one channel, at price 0) used next
\* to the message events
MessagesTexts == {T_Cost35, T_Cost1, T_NoMoney, T_Cents7}

MessagesUpdateInputs ==
    {<<NameCoffee, 500>>, <<NameCandy, 200>>, <<NameCoffee, NaN>>}

SingleBackups ==
    {b \in BackupInputs : Cardinality(DOMAIN b) = 1 /\ \A c \in DOMAIN b : b[c].ItemPrice = 0}

\* totals in cents: every total up to MaxTotalCents and some others
MaxTotalCents == 40

TotalInputs == (0..MaxTotalCents) \cup {-100, -1, 60, 350, 3500, 7000}

\* prices per item in cents
PriceInputs == {1, 10, 350, 500, 0, -100, NaN}

\* item names
N_toy == <<"t","o","y">>
N_WATCHES == <<"W","A","T","C","H","E","S">>
N_candies == <<"c","a","n","d","i","e","s">>

UnitNames ==
    {NameCoffee, NameCandy, N_toy, N_WATCHES, N_candies, BunningsSnags, BunningsSnagItem,
     EmptyName}

CountInputs == {-1, 0, 1, 2, 10, 7000}

\* texts of the slash command
X_ItemCoffee5 == <<"i","t","e","m"," ","c","o","f","f","e","e"," ","p","r","i","c","e"," ","5">>
X_ItemCandy2 == <<"i","t","e","m"," ","\"","c","a","n","d","y","\""," "," ","p","r","i","c","e"," ","2",".","0","0">>
X_Reset == <<"r","e","s","e","t">>
X_Status == <<"S","t","a","t","u","s">>
X_Help == <<"h","e","l","p"," ","m","e">>
X_NoItem == <<"i","t","e","m"," ","p","r","i","c","e"," ","5">>
X_NoPrice == <<"i","t","e","m"," ","c","o","f","f","e","e">>
X_NaNPrice == <<"i","t","e","m"," ","c","o","f","f","e","e"," ","p","r","i","c","e"," ","N","a","N">>
X_ZeroPrice == <<"i","t","e","m"," ","c","o","f","f","e","e"," ","p","r","i","c","e"," ","0">>
X_NotItem == <<"s","e","t"," ","c","o","f","f","e","e"," ","5">>
X_Unclosed == <<"i","t","e","m"," ","\"","c","o","f","f","e","e"," ","p","r","i","c","e"," ","5">>

CommandTexts ==
    {X_ItemCoffee5, X_ItemCandy2, X_Reset, X_Status, X_Help, X_NoItem,
     X_NoPrice, X_NaNPrice, X_ZeroPrice, X_NotItem, X_Unclosed, <<>>}

\* texts handed to ParseConfigCommand: an item keyword, a name, a price keyword and a
\* price, each in several spellings, present or missing, with and without whitespace
P_ItemKeywords == {<<"i","t","e","m">>, <<"I","T","E","M">>, <<"s","e","t">>}
P_Names == {<<"c","o","f","f","e","e">>, <<"\"","C","o","f","f","e","e","\"">>, <<"\"","F","l","a","t"," ","W","h","i","t","e","\"">>, <<"p","r","i","c","e","y">>, <<"\"","c","o","f","f","e","e">>, <<>>}
P_PriceKeywords == {<<"p","r","i","c","e">>, <<"P","R","I","C","E">>, <<"c","o","s","t">>, <<>>}
P_Prices == {<<"5">>, <<"2",".","5","0">>, <<"0">>, <<"-","5",".","0","0">>, <<"a","b","c">>, <<"N","a","N">>, <<>>}
P_Gaps == {<<" ">>, <<>>}

ParseTexts ==
    {k \o g1 \o n \o <<" ">> \o pk \o g2 \o v :
        k \in P_ItemKeywords, g1 \in P_Gaps, n \in P_Names, pk \in P_PriceKeywords,
        g2 \in P_Gaps, v \in P_Prices}
    \cup {<<" "," ","i","t","e","m"," "," "," ","\"","c","o","f","f","e","e","\""," "," "," "," ","p","r","i","c","e"," "," "," ","5",".","0","0"," "," ">>, <<"i","t","e","m","\t","c","o","f","f","e","e","\t","p","r","i","c","e","\t","5">>}

\* <<command, text>> pairs Slack sends to the command endpoint
\* the requests that run next to a status request
StatusCommandTexts == {X_ItemCoffee5, X_ItemCandy2, X_Reset}

CommandInputs == {<<"/snagbot", t>> : t \in CommandTexts} \cup {<<"/other", X_ItemCoffee5>>}

----------------------------------------------------------------------------
(* State *)

RGetIdle == [pc |-> "idle", ch |-> ""]

Init ==
    /\ backend \in {"memory", "redis"}
    /\ cfg \in (IF backend = "redis" THEN {AppCfg} ELSE {NilCfg, AppCfg})
    /\ configs = <<>>
    /\ rdb = <<>>
    /\ rget = RGetIdle
    /\ last = NoCall
    /\ lastMut = [c \in ChannelIDs |-> NoMut]
    /\ posted = <<>>
    /\ cmdConfigs = <<>>
    /\ mutex = MutexFree
    /\ threads = [t \in Threads |-> ThreadIdle]
    /\ issued = {}

----------------------------------------------------------------------------
(* Calls on the in-memory store *)

MemGetConfigCall(c) ==
    /\ backend = "memory"
    /\ last' = Call("GetConfig", c, EmptyName, 0, FALSE,
                    MemGetConfig(configs, cfg, c)[2], MemGetConfig(configs, cfg, c)[1],
                    FALSE)
    /\ configs' = MemGetConfigMap(configs, cfg, c)
    /\ UNCHANGED <<backend, cfg, rdb, rget, lastMut>>
    /\ posted' = <<>>
    /\ UNCHANGED <<cmdConfigs, concVars>>

MemUpdateConfigCall(c, n, p) ==
    /\ backend = "memory"
    /\ configs' = MemUpdateConfig(configs, c, n, p)
    /\ last' = Call("UpdateConfig", c, n, p, FALSE, MemUpdateCheck(c, n, p),
                    NilConfig, FALSE)
    /\ lastMut' = IF MemUpdateCheck(c, n, p) = ErrNone
                  THEN [lastMut EXCEPT ![c] = Mut("update", n, p)] ELSE lastMut
    /\ UNCHANGED <<backend, cfg, rdb, rget>>
    /\ posted' = <<>>
    /\ UNCHANGED <<cmdConfigs, concVars>>

MemResetConfigCall(c) ==
    /\ backend = "memory"
    /\ configs' = MemResetConfig(configs, c)
    /\ last' = Call("ResetConfig", c, EmptyName, 0, FALSE, MemResetCheck(c),
                    NilConfig, MemConfigExists(configs, c))
    /\ lastMut' = IF MemResetCheck(c) = ErrNone
                  THEN [lastMut EXCEPT ![c] = NoMut] ELSE lastMut
    /\ UNCHANGED <<backend, cfg, rdb, rget>>
    /\ posted' = <<>>
    /\ UNCHANGED <<cmdConfigs, concVars>>

MemConfigExistsCall(c) ==
    /\ backend = "memory"
    /\ last' = Call("ConfigExists", c, EmptyName, 0, FALSE, ErrNone, NilConfig,
                    MemConfigExists(configs, c))
    /\ UNCHANGED <<backend, cfg, configs, rdb, rget, lastMut>>
    /\ posted' = <<>>
    /\ UNCHANGED <<cmdConfigs, concVars>>

MemGetAllChannelIDsCall ==
    /\ backend = "memory"
    /\ last' = Call("GetAllChannelIDs", "", EmptyName, 0, FALSE, ErrNone, NilConfig,
                    MemGetAllChannelIDs(configs))
    /\ UNCHANGED <<backend, cfg, configs, rdb, rget, lastMut>>
    /\ posted' = <<>>
    /\ UNCHANGED <<cmdConfigs, concVars>>

MemCountCall ==
    /\ backend = "memory"
    /\ last' = Call("Count", "", EmptyName, 0, FALSE, ErrNone, NilConfig,
                    MemCount(configs))
    /\ UNCHANGED <<backend, cfg, configs, rdb, rget, lastMut>>
    /\ posted' = <<>>
    /\ UNCHANGED <<cmdConfigs, concVars>>

MemBackupConfigsCall ==
    /\ backend = "memory"
    /\ last' = Call("BackupConfigs", "", EmptyName, 0, FALSE, ErrNone, NilConfig,
                    MemBackupConfigs(configs))
    /\ UNCHANGED <<backend, cfg, configs, rdb, rget, lastMut>>
    /\ posted' = <<>>
    /\ UNCHANGED <<cmdConfigs, concVars>>

MemRestoreConfigsCall(b) ==
    /\ backend = "memory"
    /\ IF b = NilBackup
       THEN /\ last' = Call("RestoreConfigs", "", EmptyName, 0, b, "ErrInvalidRequest",
                            NilConfig, FALSE)
            /\ UNCHANGED <<configs, lastMut>>
       ELSE /\ configs' = MemRestoreConfigs(configs, b)
            /\ last' = Call("RestoreConfigs", "", EmptyName, 0, b, ErrNone,
                            NilConfig, FALSE)
            /\ lastMut' = [c \in ChannelIDs |-> Mut("restore", EmptyName, 0)]
    /\ UNCHANGED <<backend, cfg, rdb, rget>>
    /\ posted' = <<>>
    /\ UNCHANGED <<cmdConfigs, concVars>>

----------------------------------------------------------------------------
(* Calls on the Redis store; GetConfig is two Redis commands *)

\* GetConfig up to the answer of EXISTS
RedisGetConfigBegin(c) ==
    /\ backend = "redis"
    /\ rget = RGetIdle
    /\ IF RedisExists(rdb, getConfigKey(c))
       THEN /\ rget' = [pc |-> "get", ch |-> c]
            /\ UNCHANGED last
       ELSE /\ last' = Call("GetConfig", c, EmptyName, 0, FALSE, ErrNone,
                            RedisDefaultConfig(cfg, c), FALSE)
            /\ UNCHANGED rget
    /\ UNCHANGED <<backend, cfg, configs, rdb, lastMut>>
    /\ posted' = <<>>
    /\ UNCHANGED <<cmdConfigs, concVars>>

\* GetConfig from GET to its return
RedisGetConfigEnd ==
    /\ backend = "redis"
    /\ rget.pc = "get"
    /\ last' = Call("GetConfig", rget.ch, EmptyName, 0, FALSE,
                    RedisGetStored(rdb, rget.ch)[2], RedisGetStored(rdb, rget.ch)[1],
                    FALSE)
    /\ rget' = RGetIdle
    /\ UNCHANGED <<backend, cfg, configs, rdb, lastMut>>
    /\ posted' = <<>>
    /\ UNCHANGED <<cmdConfigs, concVars>>

RedisUpdateConfigCall(c, n, p) ==
    /\ backend = "redis"
    /\ rdb' = RedisUpdateConfig(rdb, c, n, p)
    /\ last' = Call("UpdateConfig", c, n, p, FALSE, RedisUpdateCheck(c, n, p),
                    NilConfig, FALSE)
    /\ lastMut' = IF RedisUpdateCheck(c, n, p) = ErrNone
                  THEN [lastMut EXCEPT ![c] = Mut("update", n, p)] ELSE lastMut
    /\ UNCHANGED <<backend, cfg, configs, rget>>
    /\ posted' = <<>>
    /\ UNCHANGED <<cmdConfigs, concVars>>

RedisResetConfigCall(c) ==
    /\ backend = "redis"
    /\ rdb' = RedisResetConfig(rdb, c)
    /\ last' = Call("ResetConfig", c, EmptyName, 0, FALSE, ErrNone, NilConfig, FALSE)
    /\ lastMut' = [lastMut EXCEPT ![c] = NoMut]
    /\ UNCHANGED <<backend, cfg, configs, rget>>
    /\ posted' = <<>>
    /\ UNCHANGED <<cmdConfigs, concVars>>

RedisConfigExistsCall(c) ==
    /\ backend = "redis"
    /\ last' = Call("ConfigExists", c, EmptyName, 0, FALSE, ErrNone, NilConfig,
                    RedisConfigExists(rdb, c))
    /\ UNCHANGED <<backend, cfg, configs, rdb, rget, lastMut>>
    /\ posted' = <<>>
    /\ UNCHANGED <<cmdConfigs, concVars>>

\* the 30-day TTL of a key runs out
RedisExpire(c) ==
    /\ backend = "redis"
    /\ getConfigKey(c) \in DOMAIN rdb
    /\ rdb' = MapDelete(rdb, getConfigKey(c))
    /\ lastMut' = [lastMut EXCEPT ![c] = Mut("expired", lastMut[c].name, lastMut[c].price)]
    /\ UNCHANGED <<backend, cfg, configs, rget, last, posted>>
    /\ UNCHANGED <<cmdConfigs, concVars>>

----------------------------------------------------------------------------
(* A message event handled by ProcessMessageEvent over the selected store *)

HandleMessageEvent(ev, apiErr) ==
    LET get == IF ev = NilEvent THEN <<NilConfig, ErrNone>> ELSE StoreGetConfig(ev.Channel)
        o == ProcessMessageEvent(ev, get, apiErr)
    IN  /\ posted' = o.posts
        /\ last' = Call("ProcessMessageEvent", "", EmptyName, 0, ev, o.err, NilConfig,
                        o.reads)
        /\ UNCHANGED <<backend, cfg, configs, rdb, rget, lastMut>>
        /\ UNCHANGED <<cmdConfigs, concVars>>

----------------------------------------------------------------------------
(* Calls of the functions of package calculator: the arguments and the result *)
(* are recorded in last                                                      *)

ExtractDollarValuesCall(text) ==
    /\ last' = Call("ExtractDollarValues", "", EmptyName, 0, text, ErrNone, NilConfig,
                    ExtractDollarValues(text))
    /\ posted' = <<>>
    /\ UNCHANGED <<backend, cfg, configs, rdb, rget, lastMut, cmdConfigs, concVars>>

CalculateItemCountCall(total, pricePerItem) ==
    /\ LET r == CalculateItemCount(total, pricePerItem)
       IN  last' = Call("CalculateItemCount", "", EmptyName, pricePerItem, total, r[2],
                        NilConfig, r[1])
    /\ posted' = <<>>
    /\ UNCHANGED <<backend, cfg, configs, rdb, rget, lastMut, cmdConfigs, concVars>>

IsExactDivisionCall(total, pricePerItem) ==
    /\ last' = Call("IsExactDivision", "", EmptyName, pricePerItem, total, ErrNone,
                    NilConfig, IsExactDivision(total, pricePerItem))
    /\ posted' = <<>>
    /\ UNCHANGED <<backend, cfg, configs, rdb, rget, lastMut, cmdConfigs, concVars>>

FormatResponseCall(count, itemName, isExactDivision) ==
    /\ last' = Call("FormatResponse", "", itemName, count, isExactDivision, ErrNone,
                    NilConfig, FormatResponse(count, itemName, isExactDivision))
    /\ posted' = <<>>
    /\ UNCHANGED <<backend, cfg, configs, rdb, rget, lastMut, cmdConfigs, concVars>>

getPluralFormCall(itemName) ==
    /\ last' = Call("getPluralForm", "", itemName, 0, FALSE, ErrNone, NilConfig,
                    getPluralForm(itemName))
    /\ posted' = <<>>
    /\ UNCHANGED <<backend, cfg, configs, rdb, rget, lastMut, cmdConfigs, concVars>>

ProcessMessageCall(text, pricePerItem) ==
    /\ LET r == ProcessMessage(text, pricePerItem)
       IN  last' = Call("ProcessMessage", "", EmptyName, pricePerItem, text, r[2],
                        NilConfig, r[1])
    /\ posted' = <<>>
    /\ UNCHANGED <<backend, cfg, configs, rdb, rget, lastMut, cmdConfigs, concVars>>

----------------------------------------------------------------------------
(* safeHandleStatusCommand seen from the goroutines that serve the requests: *)
(* its two calls of the store, with other requests in between               *)

\* store.GetConfig(channelID): a failure is answered at once, a config is kept for
\* the second call
StatusGetConfig(t, channelID) ==
    /\ threads[t].pc = "done"
    /\ LET get == MemGetConfig(cmdConfigs, cfg, channelID)
       IN  IF get[2] # ErrNone
           THEN /\ last' = Call("CommandHandler", channelID, EmptyName, 0, X_Status,
                                "AppError", NilConfig,
                                HttpReply(200, S_ErrorPrefix \o S_FailedGet \o S_TryHelp))
                /\ UNCHANGED threads
           ELSE /\ threads' = [threads EXCEPT ![t] =
                       Thread("exists", "status", channelID, EmptyName, 0,
                              Pointer("", get[1]), ErrNone)]
                /\ UNCHANGED last
    /\ UNCHANGED <<backend, cfg, configs, rdb, rget, lastMut, posted, cmdConfigs, mutex,
                   issued>>

\* checker.ConfigExists(channelID) and the answer
StatusConfigExists(t) ==
    /\ threads[t].pc = "exists"
    /\ LET config == threads[t].ret.val
           isCustom == MemConfigExists(cmdConfigs, threads[t].ch)
       IN  last' = Call("CommandHandler", threads[t].ch, EmptyName, 0, X_Status, ErrNone,
                        NilConfig,
                        HttpReply(200, (IF isCustom THEN S_Current ELSE S_UsingDefault)
                                       \o config.ItemName \o S_AtDollar
                                       \o FormatPrice(config.ItemPrice) \o S_Each))
    /\ threads' = [threads EXCEPT ![t] = ThreadIdle]
    /\ UNCHANGED <<backend, cfg, configs, rdb, rget, lastMut, posted, cmdConfigs, mutex,
                   issued>>

----------------------------------------------------------------------------
(* ParseConfigCommand called on its own: the text to parse is drawn at the start *)
(* and the call records the result in last                                      *)

InitParse ==
    /\ backend = "memory"
    /\ cfg = AppCfg
    /\ configs = <<>>
    /\ rdb = <<>>
    /\ rget = RGetIdle
    /\ last \in {Call("text", "", EmptyName, 0, text, ErrNone, NilConfig, FALSE) :
                    text \in ParseTexts}
    /\ lastMut = [c \in ChannelIDs |-> NoMut]
    /\ posted = <<>>
    /\ cmdConfigs = <<>>
    /\ mutex = MutexFree
    /\ threads = [t \in Threads |-> ThreadIdle]
    /\ issued = {}

ParseConfigCommandCall ==
    /\ last.op = "text"
    /\ LET r == ParseConfigCommand(last.arg)
       IN  last' = Call("ParseConfigCommand", "", r.ItemName, r.ItemPrice, last.arg,
                        r.err, NilConfig, r.detail)
    /\ UNCHANGED <<backend, cfg, configs, rdb, rget, lastMut, posted, cmdConfigs, concVars>>

----------------------------------------------------------------------------
(* The command endpoint and the event endpoint as SetupSimpleRouter wires them: *)
(* CommandHandler works on cmdConfigs, EventHandler on configs                  *)

CommandRequest(command, text, channelID) ==
    LET h == CommandHandler(cmdConfigs, cfg, command, text, channelID)
    IN  /\ cmdConfigs' = h[1].configs
        /\ lastMut' = IF h[1].mut = NoChange THEN lastMut
                      ELSE [lastMut EXCEPT ![channelID] = h[1].mut]
        /\ last' = Call("CommandHandler", channelID, EmptyName, 0, text,
                        IF h[1].message = <<>> THEN ErrNone ELSE "AppError",
                        NilConfig, h[2])
        /\ posted' = <<>>
        /\ UNCHANGED <<backend, cfg, configs, rdb, rget, concVars>>

----------------------------------------------------------------------------
(* The statements of the in-memory store's methods, one goroutine at a time *)

\* UpdateConfig up to s.mutex.Lock(): the argument checks
ConcUpdateBegin(t, c, n, p) ==
    /\ threads[t].pc = "done"
    /\ IF MemUpdateCheck(c, n, p) # ErrNone
       THEN /\ threads' = [threads EXCEPT ![t] =
                   Thread("done", "UpdateConfig", c, n, p, NilPointer, MemUpdateCheck(c, n, p))]
            /\ UNCHANGED issued
       ELSE /\ threads' = [threads EXCEPT ![t] =
                   Thread("lock", "UpdateConfig", c, n, p, NilPointer, ErrNone)]
            /\ issued' = issued \cup {<<n, p>>}
    /\ UNCHANGED <<backend, cfg, configs, rdb, rget, last, lastMut, posted, cmdConfigs, mutex>>

\* ResetConfig up to s.mutex.Lock()
ConcResetBegin(t, c) ==
    /\ threads[t].pc = "done"
    /\ threads' = [threads EXCEPT ![t] =
           IF MemResetCheck(c) # ErrNone
           THEN Thread("done", "ResetConfig", c, EmptyName, 0, NilPointer, MemResetCheck(c))
           ELSE Thread("lock", "ResetConfig", c, EmptyName, 0, NilPointer, ErrNone)]
    /\ UNCHANGED <<backend, cfg, configs, rdb, rget, last, lastMut, posted, cmdConfigs,
                   mutex, issued>>

\* GetConfig up to s.mutex.RLock()
ConcGetBegin(t, c) ==
    /\ threads[t].pc = "done"
    /\ threads' = [threads EXCEPT ![t] =
           IF c = ""
           THEN Thread("done", "GetConfig", c, EmptyName, 0, NilPointer, "ErrInvalidRequest")
           ELSE Thread("rlock", "GetConfig", c, EmptyName, 0, NilPointer, ErrNone)]
    /\ UNCHANGED <<backend, cfg, configs, rdb, rget, last, lastMut, posted, cmdConfigs,
                   mutex, issued>>

\* s.mutex.Lock() returns
ConcLock(t) ==
    /\ threads[t].pc = "lock"
    /\ CanLock(mutex)
    /\ mutex' = [mutex EXCEPT !.writer = t]
    /\ threads' = [threads EXCEPT ![t].pc =
           IF threads[t].op = "UpdateConfig" THEN "entry" ELSE "delete"]
    /\ UNCHANGED <<backend, cfg, configs, rdb, rget, last, lastMut, posted, cmdConfigs,
                   issued>>

\* UpdateConfig: the entry is looked up and, when missing, created and put in the map
ConcUpdateEntry(t) ==
    /\ threads[t].pc = "entry"
    /\ configs' = IF threads[t].ch \in DOMAIN configs THEN configs
                  ELSE MapPut(configs, threads[t].ch,
                              ChannelConfig(threads[t].ch, EmptyName, 0))
    /\ threads' = [threads EXCEPT ![t].pc = "name"]
    /\ UNCHANGED <<backend, cfg, rdb, rget, last, lastMut, posted, cmdConfigs,
                   mutex, issued>>

\* UpdateConfig: config.ItemName = itemName
ConcUpdateName(t) ==
    /\ threads[t].pc = "name"
    /\ configs' = [configs EXCEPT ![threads[t].ch].ItemName = threads[t].name]
    /\ threads' = [threads EXCEPT ![t].pc = "price"]
    /\ UNCHANGED <<backend, cfg, rdb, rget, last, lastMut, posted, cmdConfigs,
                   mutex, issued>>

\* UpdateConfig: config.ItemPrice = itemPrice
ConcUpdatePrice(t) ==
    /\ threads[t].pc = "price"
    /\ configs' = [configs EXCEPT ![threads[t].ch].ItemPrice = threads[t].price]
    /\ threads' = [threads EXCEPT ![t].pc = "unlock"]
    /\ UNCHANGED <<backend, cfg, rdb, rget, last, lastMut, posted, cmdConfigs,
                   mutex, issued>>

\* ResetConfig: delete(s.configs, channelID) when the entry is there
ConcResetDelete(t) ==
    /\ threads[t].pc = "delete"
    /\ configs' = IF threads[t].ch \in DOMAIN configs
                  THEN MapDelete(configs, threads[t].ch) ELSE configs
    /\ threads' = [threads EXCEPT ![t].pc = "unlock"]
    /\ UNCHANGED <<backend, cfg, rdb, rget, last, lastMut, posted, cmdConfigs,
                   mutex, issued>>

\* the deferred s.mutex.Unlock() and the return of UpdateConfig or ResetConfig
ConcUnlock(t) ==
    /\ threads[t].pc = "unlock"
    /\ mutex' = [mutex EXCEPT !.writer = 0]
    /\ threads' = [threads EXCEPT ![t].pc = "done"]
    /\ lastMut' = [lastMut EXCEPT ![threads[t].ch] =
           IF threads[t].op = "UpdateConfig"
           THEN Mut("update", threads[t].name, threads[t].price) ELSE NoMut]
    /\ UNCHANGED <<backend, cfg, configs, rdb, rget, last, posted, cmdConfigs, issued>>

\* s.mutex.RLock() returns
ConcRLock(t) ==
    /\ threads[t].pc = "rlock"
    /\ CanRLock(mutex)
    /\ mutex' = [mutex EXCEPT !.readers = @ \cup {t}]
    /\ threads' = [threads EXCEPT ![t].pc = "read"]
    /\ UNCHANGED <<backend, cfg, configs, rdb, rget, last, lastMut, posted, cmdConfigs,
                   issued>>

\* GetConfig: the copy (or the defaults) is built, RUnlock runs, the call returns
ConcGetRead(t) ==
    /\ threads[t].pc = "read"
    /\ threads' = [threads EXCEPT ![t].pc = "done",
                                  ![t].ret = GetConfigResult(configs, cfg, threads[t].ch)]
    /\ mutex' = [mutex EXCEPT !.readers = @ \ {t}]
    /\ UNCHANGED <<backend, cfg, configs, rdb, rget, last, lastMut, posted, cmdConfigs,
                   issued>>

----------------------------------------------------------------------------
(* Specifications *)

\* the store driven through its public methods, on either backend
Next ==
    \/ \E c \in ChannelIDs : MemGetConfigCall(c)
    \/ \E c \in ChannelIDs, u \in UpdateInputs : MemUpdateConfigCall(c, u[1], u[2])
    \/ \E c \in ChannelIDs : MemResetConfigCall(c)
    \/ \E c \in ChannelIDs : MemConfigExistsCall(c)
    \/ MemGetAllChannelIDsCall
    \/ MemCountCall
    \/ MemBackupConfigsCall
    \/ \E b \in BackupInputs \cup {NilBackup} : MemRestoreConfigsCall(b)
    \/ \E c \in ChannelIDs : RedisGetConfigBegin(c)
    \/ RedisGetConfigEnd
    \/ \E c \in ChannelIDs, u \in RedisUpdateInputs : RedisUpdateConfigCall(c, u[1], u[2])
    \/ \E c \in ChannelIDs : RedisResetConfigCall(c)
    \/ \E c \in ChannelIDs : RedisConfigExistsCall(c)
    \/ \E c \in ChannelIDs : RedisExpire(c)

Spec == Init /\ [][Next]_vars

\* messages and configuration changes on one in-memory store
NextPipeline ==
    \/ \E c \in ChannelIDs, u \in UpdateInputs : MemUpdateConfigCall(c, u[1], u[2])
    \/ \E c \in ChannelIDs : MemResetConfigCall(c)
    \/ \E ev \in Events, apiErr \in ApiErrors : HandleMessageEvent(ev, apiErr)

InitMemory == Init /\ backend = "memory"

SpecPipeline == InitMemory /\ [][NextPipeline]_vars

\* the application as app.New builds it: config.New() and SetupSimpleRouter
InitRouter == Init /\ backend = "memory" /\ cfg = AppCfg

NextRouter ==
    \/ \E ct \in CommandInputs, c \in ChannelIDs : CommandRequest(ct[1], ct[2], c)
    \/ \E ev \in RouterEvents, apiErr \in ApiErrors : HandleMessageEvent(ev, apiErr)

SpecRouter == InitRouter /\ [][NextRouter]_vars

\* goroutines calling the in-memory store on one channel
NextConc ==
    \/ \E t \in Threads, u \in ConcUpdateInputs : ConcUpdateBegin(t, ConcChannel, u[1], u[2])
    \/ \E t \in Threads : ConcResetBegin(t, ConcChannel)
    \/ \E t \in Threads : ConcGetBegin(t, ConcChannel)
    \/ \E t \in Threads : ConcLock(t)
    \/ \E t \in Threads : ConcUpdateEntry(t)
    \/ \E t \in Threads : ConcUpdateName(t)
    \/ \E t \in Threads : ConcUpdatePrice(t)
    \/ \E t \in Threads : ConcResetDelete(t)
    \/ \E t \in Threads : ConcUnlock(t)
    \/ \E t \in Threads : ConcRLock(t)
    \/ \E t \in Threads : ConcGetRead(t)

SpecConc == InitMemory /\ [][NextConc]_vars

\* messages, configuration changes and restored backups on one in-memory store, and
\* calculator.ProcessMessage
NextMessages ==
    \/ \E c \in ChannelIDs, u \in MessagesUpdateInputs : MemUpdateConfigCall(c, u[1], u[2])
    \/ \E c \in ChannelIDs : MemResetConfigCall(c)
    \/ \E b \in SingleBackups \cup {NilBackup} : MemRestoreConfigsCall(b)
    \/ \E ev \in RouterEvents \cup LaterEvents, apiErr \in ApiErrors :
          HandleMessageEvent(ev, apiErr)
    \/ \E text \in MessagesTexts, p \in {10, DefaultPriceCents} : ProcessMessageCall(text, p)

SpecMessages == InitMemory /\ [][NextMessages]_vars

\* the functions of package calculator called on their own
NextCalc ==
    \/ \E text \in CalcTexts : ExtractDollarValuesCall(text)
    \/ \E t \in TotalInputs, p \in PriceInputs : CalculateItemCountCall(t, p)
    \/ \E t \in TotalInputs, p \in PriceInputs : IsExactDivisionCall(t, p)
    \/ \E n \in CountInputs, name \in UnitNames, x \in BOOLEAN : FormatResponseCall(n, name, x)
    \/ \E name \in UnitNames : getPluralFormCall(name)
    \/ \E text \in CalcTexts, p \in PriceInputs : ProcessMessageCall(text, p)

SpecCalc == InitMemory /\ [][NextCalc]_vars

\* the command endpoint serving status requests next to updates and resets of the
\* same channel
NextStatus ==
    \/ \E t \in Threads, c \in {ConcChannel, ""} : StatusGetConfig(t, c)
    \/ \E t \in Threads : StatusConfigExists(t)
    \/ \E text \in StatusCommandTexts : CommandRequest("/snagbot", text, ConcChannel)

SpecStatus == InitRouter /\ [][NextStatus]_vars

\* ParseConfigCommand called on its own
NextParse == ParseConfigCommandCall

SpecParse == InitParse /\ [][NextParse]_vars

----------------------------------------------------------------------------
(* Properties *)

\* a message event that ProcessMessageEvent does not skip
Converted(ev) ==
    /\ ev # NilEvent
    /\ ev.BotID = ""
    /\ ev.SubType \notin {"bot_message", "message_changed"}

\* the replies a message gets when it is converted with item name n at price p
RepliesWith(ev, n, p) ==
    ProcessMessageEvent(ev, <<ChannelConfig(ev.Channel, n, p), ErrNone>>, ErrNone).posts

\* C1: in the application SetupSimpleRouter wires, once the command "item X price P" has
\* succeeded for a channel, every later message in that channel that is neither from a
\* bot nor an edit and holds a dollar amount is answered with the conversion into X at
\* price P (the pipeline reads the store the command wrote).
C1_CommandReachesPipeline ==
    (/\ last.op = "ProcessMessageEvent"
     /\ Converted(last.arg)
     /\ ExtractDollarValues(last.arg.Text) # <<>>
     /\ lastMut[last.arg.Channel].kind = "update")
    => posted = RepliesWith(last.arg, lastMut[last.arg.Channel].name,
                            lastMut[last.arg.Channel].price)

\* C2: after any sequence of the public operations of either store, every ChannelConfig
\* held in the store has a price above zero.
C2_StoredPricePositive ==
    /\ \A c \in DOMAIN configs : FGt0(configs[c].ItemPrice)
    /\ \A k \in DOMAIN rdb : FGt0(rdb[k].item_price)

\* C3: UpdateConfig of the in-memory store with a price <= 0 or with an empty name returns
\* an error and leaves the store as it was: the entry of the channel, ConfigExists and
\* GetConfig for it are the same as before the call.
C3_InvalidUpdateRejected ==
    [][(/\ last'.op = "UpdateConfig"
        /\ (FLe0(last'.price) \/ last'.name = EmptyName)
        /\ MemUpdateConfigCall(last'.ch, last'.name, last'.price))
       => /\ last'.err # ErrNone
          /\ configs' = configs
          /\ MemConfigExists(configs', last'.ch) = MemConfigExists(configs, last'.ch)
          /\ MemGetConfig(configs', cfg', last'.ch) = MemGetConfig(configs, cfg, last'.ch)]_vars

\* an UpdateConfig with a price <= 0 was refused for a channel that has an entry
C3_Witness ==
    /\ backend = "memory"
    /\ last.op = "UpdateConfig"
    /\ FLe0(last.price)
    /\ last.err # ErrNone
    /\ last.ch \in DOMAIN configs

\* the system defaults scoped to channel c
SystemDefault(c) ==
    IF cfg = NilCfg THEN ChannelConfig(c, BunningsSnags, DefaultPriceCents)
    ELSE ChannelConfig(c, cfg.DefaultItemName, cfg.DefaultItemPrice)

ResetIsNoOpAndIdempotent(c) ==
    /\ ~StoreConfigExists(c) => (last'.err = ErrNone /\ configs' = configs /\ rdb' = rdb)
    /\ MemResetConfig(configs', c) = configs'
    /\ RedisResetConfig(rdb', c) = rdb'

C6_GetConfigNeverFails ==
    (last.op = "GetConfig" /\ last.ch # "")
    => (last.err = ErrNone /\ last.ret # NilConfig /\ last.ret.ChannelID = last.ch)

\* the configs a GetConfig of channel c may return: the defaults, or what some
\* UpdateConfig that was called so far asked for
Snapshots(c) ==
    {SystemDefault(c)} \cup {ChannelConfig(c, u[1], u[2]) : u \in issued}

\* what the map means for channel c once the writers that finished are taken in order
Committed(c) ==
    IF lastMut[c].kind = "update"
    THEN ChannelConfig(c, lastMut[c].name, lastMut[c].price)
    ELSE SystemDefault(c)

\* every config GetConfig returned is whole: never the name of one update with the price
\* of another, nor an entry half written
ReturnedWhole ==
    \A t \in Threads :
        (threads[t].op = "GetConfig" /\ threads[t].pc = "done" /\ threads[t].err = ErrNone)
        => Deref(threads[t].ret, configs) \in Snapshots(threads[t].ch)

\* GetConfig returns what the last writer to finish left (or the defaults), and a config a
\* caller holds stays as it was returned whatever is written later
ReturnedCommittedAndStable ==
    \A t \in Threads :
        /\ (threads[t].pc = "read" /\ threads'[t].pc = "done")
           => Deref(threads'[t].ret, configs') = Committed(threads[t].ch)
        /\ (threads[t].op = "GetConfig" /\ threads[t].pc = "done"
            /\ threads[t].err = ErrNone /\ threads'[t] = threads[t])
           => Deref(threads'[t].ret, configs') = Deref(threads[t].ret, configs)

\* C7: the in-memory store's operations on one channel are linearizable: with UpdateConfig
\* calls running at the same time, every config a GetConfig returns during or after them
\* is the defaults or exactly what one of the updates asked for (never a mix), it is what
\* the last finished writer left, and a config already returned is not changed later.
C7_Linearizable == []ReturnedWhole /\ [][ReturnedCommittedAndStable]_vars

\* a caller holds (coffee, 5.00) while another goroutine's update to (candy, 2.00) has
\* written the name and not yet the price, and a third waits for the lock
C7_Witness ==
    \E t1, t2, t3 \in Threads :
        /\ threads[t1].op = "GetConfig" /\ threads[t1].pc = "done"
        /\ Deref(threads[t1].ret, configs) = ChannelConfig(ConcChannel, NameCoffee, 500)
        /\ threads[t2].pc = "price" /\ threads[t2].name = NameCandy
        /\ configs[ConcChannel] = ChannelConfig(ConcChannel, NameCandy, 500)
        /\ threads[t3].pc = "lock" /\ threads[t3].op = "UpdateConfig"

\* C8: GetConfig and ConfigExists of the in-memory store leave the store as it was: the
\* default read for a channel without an entry is not kept, ConfigExists stays false for
\* it, Count and GetAllChannelIDs are the same as before.
C8_ReadsLeaveStore ==
    [][(/\ last'.op \in {"GetConfig", "ConfigExists"}
        /\ (MemGetConfigCall(last'.ch) \/ MemConfigExistsCall(last'.ch)))
       => /\ configs' = configs
          /\ MemConfigExists(configs', last'.ch) = MemConfigExists(configs, last'.ch)
          /\ MemCount(configs') = MemCount(configs)
          /\ MemGetAllChannelIDs(configs') = MemGetAllChannelIDs(configs)]_vars

\* GetConfig handed out the defaults for a channel that still has no entry
C8_Witness ==
    /\ backend = "memory"
    /\ last.op = "GetConfig"
    /\ last.ch # ""
    /\ last.ret = SystemDefault(last.ch)
    /\ ~MemConfigExists(configs, last.ch)
    /\ MemCount(configs) = 1

\* UpdateConfig or ResetConfig on channel a leaves GetConfig and ConfigExists of every
\* other channel as they were
OtherChannelsUntouched ==
    (/\ last'.op \in {"UpdateConfig", "ResetConfig"}
     /\ (\/ MemUpdateConfigCall(last'.ch, last'.name, last'.price)
         \/ MemResetConfigCall(last'.ch)))
    => \A b \in ChannelIDs \ {last'.ch} :
          /\ MemGetConfig(configs', cfg', b) = MemGetConfig(configs, cfg, b)
          /\ MemConfigExists(configs', b) = MemConfigExists(configs, b)

\* a message is answered with the conversion under its own channel's configuration
ConvertedWithOwnConfig ==
    (/\ last.op = "ProcessMessageEvent"
     /\ Converted(last.arg)
     /\ last.arg.Channel # "")
    => posted = RepliesWith(last.arg, Committed(last.arg.Channel).ItemName,
                            Committed(last.arg.Channel).ItemPrice)

\* C9: channels are isolated: UpdateConfig or ResetConfig on channel a leaves the results
\* of GetConfig and ConfigExists of every other channel b unchanged, and a message in
\* channel b is converted with b's configuration whatever was configured for a.
C9_ChannelsIsolated == []ConvertedWithOwnConfig /\ [][OtherChannelsUntouched]_vars

\* a message in a channel configured for coffee at 5.00 is answered in coffees while
\* another channel is configured for candy
C9_Witness ==
    /\ last.op = "ProcessMessageEvent"
    /\ Converted(last.arg)
    /\ Len(posted) = 1
    /\ lastMut[last.arg.Channel] = Mut("update", NameCoffee, 500)
    /\ posted[1].Text = FormatResponse(7, NameCoffee, TRUE)
    /\ \E a \in ChannelIDs \ {last.arg.Channel} : lastMut[a] = Mut("update", NameCandy, 200)

\* a message event from a bot, or an edit
Skipped(ev) ==
    /\ ev # NilEvent
    /\ (ev.BotID # "" \/ ev.SubType = "bot_message" \/ ev.SubType = "message_changed")

\* C10: for a message event that comes from a bot (BotID set or subtype bot_message) or
\* is an edit (subtype message_changed), ProcessMessageEvent posts nothing, does not read
\* or change the configuration store and returns no error, whatever the text holds.
C10_SkippedEventsSilent ==
    /\ []((last.op = "ProcessMessageEvent" /\ Skipped(last.arg))
          => (posted = <<>> /\ last.out = 0 /\ last.err = ErrNone))
    /\ [][(/\ last'.op = "ProcessMessageEvent"
            /\ Skipped(last'.arg)
            /\ \E apiErr \in ApiErrors : HandleMessageEvent(last'.arg, apiErr))
           => (configs' = configs /\ rdb' = rdb)]_vars

\* an edit holding "$35" arrived in a channel with a custom config and nothing was posted
C10_Witness ==
    /\ last.op = "ProcessMessageEvent"
    /\ last.arg # NilEvent
    /\ last.arg.SubType = "message_changed"
    /\ last.arg.BotID = ""
    /\ ExtractDollarValues(last.arg.Text) # <<>>
    /\ MemConfigExists(configs, last.arg.Channel)
    /\ posted = <<>>

----------------------------------------------------------------------------
(* Properties of the message pipeline's replies *)

\* the values and the total ProcessMessageEvent and ProcessMessage work with
ValuesOf(text) == ExtractDollarValues(text)

TotalOf(text) == SumDollarValues(ExtractDollarValues(text))

\* C11: every message the pipeline posts for an inbound event (a conversion, the
\* zero-count reply or the apology after an error) carries the channel id of that event
\* and has the event's own timestamp as its thread timestamp.
C11_RepliesThreaded ==
    (last.op = "ProcessMessageEvent" /\ last.arg # NilEvent)
    => \A i \in 1..Len(posted) :
          /\ posted[i].ChannelID = last.arg.Channel
          /\ posted[i].ThreadTS = last.arg.TimeStamp

\* after a backup with price 0 was restored for a channel, a message there holding "$35"
\* and carrying the later timestamp got the apology, in its channel and thread
C11_Witness ==
    /\ last.op = "ProcessMessageEvent"
    /\ last.arg # NilEvent
    /\ last.arg.Channel = ChannelNames[1]
    /\ last.arg.TimeStamp = "1623437000.000200"
    /\ last.err = "ErrInvalidDollarValue"
    /\ posted = <<SlackResponse(ChannelNames[1], S_Oops, "1623437000.000200")>>

\* C12: for a message whose text holds no dollar token the pipeline posts nothing,
\* whatever the channel id and whatever the configuration store holds or answers.
C12_NoDollarNoReply ==
    (/\ last.op = "ProcessMessageEvent"
     /\ last.arg # NilEvent
     /\ ValuesOf(last.arg.Text) = <<>>)
    => posted = <<>>

S_ZeroBunningsSnag == <<"T","h","a","t"," ","w","o","u","l","d","n","'","t"," ","e","v","e","n"," ","b","u","y"," ","a"," ","s","i","n","g","l","e"," ","B","u","n","n","i","n","g","s"," ","s","n","a","g","!">>

----------------------------------------------------------------------------
(* Properties of package calculator *)

\* ceil(t / p) for whole cents t >= 0 and p > 0
CeilDiv(t, p) == (t + p - 1) \div p

\* C14: ceiling property: for a price per item p > 0 and a total t >= p, both in whole
\* cents, CalculateItemCount gives ceil(t / p), and the reply of ProcessMessage uses
\* ceil(t / p) for the total t of the values extracted from the text.
C14_Ceiling ==
    /\ (/\ last.op = "CalculateItemCount"
        /\ FGt0(last.price)
        /\ last.arg >= last.price)
       => (last.err = ErrNone /\ last.out = CeilDiv(last.arg, last.price))
    /\ (/\ last.op = "ProcessMessage"
        /\ FGt0(last.price)
        /\ ValuesOf(last.arg) # <<>>
        /\ TotalOf(last.arg) >= last.price)
       => \E x \in BOOLEAN :
             last.out = FormatResponse(CeilDiv(TotalOf(last.arg), last.price),
                                       BunningsSnagItem, x)

\* C15: exact division: for a price per item p > 0, IsExactDivision(t, p) is true iff t
\* is a whole multiple of p, and a message whose total is n * p (n >= 1) is answered
\* with the count n without "nearly".
C15_ExactDivision ==
    /\ (last.op = "IsExactDivision" /\ FGt0(last.price))
       => (last.out <=> (last.arg % last.price = 0))
    /\ (/\ last.op = "ProcessMessage"
        /\ FGt0(last.price)
        /\ ValuesOf(last.arg) # <<>>
        /\ TotalOf(last.arg) >= last.price
        /\ TotalOf(last.arg) % last.price = 0)
       => last.out = FormatResponse(TotalOf(last.arg) \div last.price,
                                    BunningsSnagItem, TRUE)

\* C16: CalculateItemCount returns an error and the count 0 when the price per item is
\* <= 0 or the total is < 0, and ProcessMessage returns an error and no response text
\* for a text that holds a dollar amount when the price per item is <= 0.
C16_InvalidInputRejected ==
    /\ (/\ last.op = "CalculateItemCount"
        /\ (FLe0(last.price) \/ last.arg < 0))
       => (last.err # ErrNone /\ last.out = 0)
    /\ (/\ last.op = "ProcessMessage"
        /\ ValuesOf(last.arg) # <<>>
        /\ FLe0(last.price))
       => (last.err # ErrNone /\ last.out = <<>>)

\* ProcessMessage was handed "This would cost $35" with the price 0 and failed
C16_Witness ==
    /\ last.op = "ProcessMessage"
    /\ last.arg = T_Cost35
    /\ last.price = 0
    /\ last.err = "ErrInvalidDollarValue"
    /\ last.out = <<>>

S_nearly == <<"n","e","a","r","l","y"," ">>

\* the reply the formatter is to give for a count >= 0
ExpectedResponse(count, name, isExact) ==
    LET prefix == IF isExact THEN <<>> ELSE S_nearly
    IN  IF count = 0 THEN S_WouldntBuy \o getSingularForm(name) \o S_bang
        ELSE IF count = 1
        THEN S_Thats \o prefix \o <<"1", " ">> \o getSingularForm(name) \o S_bang
        ELSE S_Thats \o prefix \o Itoa(count) \o <<" ">> \o getPluralForm(name) \o S_bang

\* C17: FormatResponse(count, name, isExact) is "That wouldn't even buy a single
\* {singular}!" for count 0, "That's {prefix}1 {singular}!" for count 1 and "That's
\* {prefix}{count} {plural}!" for count > 1, the singular and plural being those of
\* name and prefix being "nearly " iff isExact is false.
C17_FormatResponse ==
    (last.op = "FormatResponse" /\ last.price >= 0)
    => last.out = ExpectedResponse(last.price, last.name, last.arg)

\* C17 as the code has it: the same, with an empty name formatted as the name "item"
C17_FormatResponseAmended ==
    (last.op = "FormatResponse" /\ last.price >= 0)
    => last.out = ExpectedResponse(last.price,
                                   IF last.name = EmptyName THEN S_item ELSE last.name,
                                   last.arg)

\* the count 10 of candy, not exact, was formatted as "That's nearly 10 candies!"
C17_Witness ==
    /\ last.op = "FormatResponse"
    /\ last.price = 10
    /\ last.name = NameCandy
    /\ last.arg = FALSE
    /\ last.out = <<"T","h","a","t","'","s"," ","n","e","a","r","l","y"," ","1","0"," ","c","a","n","d","i","e","s","!">>

IsVowel(ch) == LowerChar(ch) \in {"a", "e", "i", "o", "u"}

\* C18: plural form: a name ending in s (in either case) is returned unchanged; any
\* other name gets "s" appended, except that a name ending in a consonant followed by
\* y gets "ies" in place of the y (so a vowel followed by y gives "ys").
C18_PluralForm ==
    (last.op = "getPluralForm")
    => LET n == last.name
       IN  last.out =
              IF HasSuffix(ToLower(n), <<"s">>) THEN n
              ELSE IF /\ Len(n) >= 2
                      /\ LowerChar(n[Len(n)]) = "y"
                      /\ ~IsVowel(n[Len(n) - 1])
                   THEN DropLast(n, 1) \o <<"i", "e", "s">>
                   ELSE n \o <<"s">>

\* the matches of the token pattern in a text, and the text of the k-th match
MatchesOf(text) == FindAll(text, 1)

TokenAt(text, k) == SubSeq(text, MatchesOf(text)[k][1], MatchesOf(text)[k][2])

\* the matches whose token text did not occur in an earlier match
FirstOccurrences(text) ==
    {k \in 1..Len(MatchesOf(text)) : \A j \in 1..(k - 1) : TokenAt(text, j) # TokenAt(text, k)}

\* C19: ExtractDollarValues suppresses duplicates of the same literal token: the values
\* are those of the first occurrence of each token text, in order, so "This costs $35
\* and that costs $35" at the price 3.50 is converted from 35: "That's 10 Bunnings
\* snags!".
C19_DuplicatesSuppressed ==
    /\ (last.op = "ExtractDollarValues")
       => /\ Len(last.out) = Cardinality(FirstOccurrences(last.arg))
          /\ \A k \in FirstOccurrences(last.arg) :
                last.out[Cardinality({j \in FirstOccurrences(last.arg) : j <= k})]
                  = AmountCents(Tail(TokenAt(last.arg, k)))
    /\ (last.op = "ProcessMessage" /\ last.arg = T_Twice35 /\ last.price = 350)
       => (last.err = ErrNone /\ last.out = <<"T","h","a","t","'","s"," ","1","0"," ","B","u","n","n","i","n","g","s"," ","s","n","a","g","s","!">>)

\* "This costs $35 and that costs $35" gave the one value 35
C19_Witness ==
    /\ last.op = "ExtractDollarValues"
    /\ last.arg = T_Twice35
    /\ Len(MatchesOf(last.arg)) = 2
    /\ last.out = <<3500>>

\* C20: each occurrence of a token counts: a text with k non-overlapping occurrences of
\* tokens yields k values, also when some occurrences are the same literal token.
C20_OccurrencesIndependent ==
    (last.op = "ExtractDollarValues")
    => Len(last.out) = Len(MatchesOf(last.arg))

\* text[i..j] is a token: "$", one or more digits, optionally "." and one or two digits
IsTokenSpan(text, i, j) ==
    /\ 1 <= i /\ j <= Len(text)
    /\ text[i] = "$"
    /\ \E d \in (i + 1)..j :
          /\ \A x \in (i + 1)..d : IsDigit(text[x])
          /\ \/ j = d
             \/ /\ j \in {d + 2, d + 3}
                /\ text[d + 1] = "."
                /\ \A x \in (d + 2)..j : IsDigit(text[x])

\* C21: ExtractDollarValues returns at most one value per source span: the matches are
\* the leftmost non-overlapping (longest) matches of "$" + digits + optional "." and
\* one or two digits, every value is the amount of one match, an embedded token such
\* as USD$35 matches, and "$35.50.25" gives the single value 35.50.
C21_OneValuePerSpan ==
    (last.op = "ExtractDollarValues")
    => LET ms == MatchesOf(last.arg)
       IN  /\ \A k \in 1..Len(ms) :
                 /\ IsTokenSpan(last.arg, ms[k][1], ms[k][2])
                 /\ ~\E j \in (ms[k][2] + 1)..Len(last.arg) :
                        IsTokenSpan(last.arg, ms[k][1], j)
                 /\ k < Len(ms) => ms[k][2] < ms[k + 1][1]
           /\ \A p \in 1..Len(last.arg) :
                 (\E j \in p..Len(last.arg) : IsTokenSpan(last.arg, p, j))
                 => \E k \in 1..Len(ms) : ms[k][1] <= p /\ p <= ms[k][2]
           /\ Len(last.out) <= Len(ms)
           /\ \A v \in 1..Len(last.out) :
                 \E k \in 1..Len(ms) :
                    last.out[v] = AmountCents(Tail(TokenAt(last.arg, k)))
           /\ last.arg = T_Dotted => last.out = <<3550>>
           /\ last.arg = T_Embedded => last.out = <<3500, 2000>>

\* "$35.50.25" gave the one value 35.50
C21_Witness ==
    /\ last.op = "ExtractDollarValues"
    /\ last.arg = T_Dotted
    /\ last.out = <<3550>>

----------------------------------------------------------------------------
(* Properties of ParseConfigCommand *)

\* the text trimmed, with every run of whitespace turned into one space
NormText(text) == CollapseSpace(TrimSpace(text))

\* what follows the first four characters of the normalised text
AfterItem(text) == TrimSpace(DropFirst(NormText(text), 4))

\* r starts with a quoted string / the index of its closing quote (0: none)
ClosingQuote(r) == IF r # <<>> /\ r[1] = "\"" THEN IndexFrom(r, "\"", 2) ELSE 0

\* the end of the item name r starts with: the closing quote, or the end of the first word
NameEnd(r) ==
    IF r # <<>> /\ r[1] = "\"" THEN ClosingQuote(r)
    ELSE IF IndexFrom(r, " ", 1) = 0 THEN Len(r) ELSE IndexFrom(r, " ", 1) - 1

AfterName(r) == TrimSpace(DropFirst(r, NameEnd(r)))

AfterPrice(x) == TrimSpace(DropFirst(x, 5))

\* a decimal numeral: an optional sign, digits, optionally "." and more digits
IsNumeral(tok) ==
    LET body == IF tok # <<>> /\ tok[1] \in {"-", "+"} THEN Tail(tok) ELSE tok
    IN  /\ \E i \in 1..Len(body) : IsDigit(body[i])
        /\ \A i \in 1..Len(body) : IsDigit(body[i]) \/ body[i] = "."
        /\ Cardinality({i \in 1..Len(body) : body[i] = "."}) <= 1

\* the value of a numeral is <= 0: it is negative or all its digits are 0
NumeralNotPositive(tok) ==
    \/ tok[1] = "-"
    \/ \A i \in 1..Len(tok) : tok[i] \in {"0", ".", "+"}

\* the failure the classification names for a text, or "none" where it names none
ExpectedFailure(text) ==
    LET r == AfterItem(text)
        x == AfterName(r)
        v == AfterPrice(x)
    IN  IF ~HasPrefix(ToLower(NormText(text)), <<"i","t","e","m">>) THEN "ErrInvalidCommand"
        ELSE IF HasPrefix(ToLower(r), <<"p","r","i","c","e">>) THEN "ErrMissingItem"
        ELSE IF r = <<>> THEN "none"
        ELSE IF r[1] = "\"" /\ ClosingQuote(r) = 0 THEN "ErrInvalidCommand"
        ELSE IF r[1] = "\"" /\ ClosingQuote(r) = 2 THEN "none"
        ELSE IF x = <<>> THEN "ErrMissingPrice"
        ELSE IF ~HasPrefix(ToLower(x), <<"p","r","i","c","e">>) THEN "ErrInvalidCommand"
        ELSE IF v = <<>> THEN "ErrMissingPrice"
        ELSE IF ~IsNumeral(v) THEN "ErrInvalidPrice"
        ELSE IF NumeralNotPositive(v) THEN "ErrInvalidPrice"
        ELSE "none"

\* C22: ParseConfigCommand classifies its failures: no leading item keyword gives
\* InvalidCommand; the price keyword where the name is expected gives MissingItem; an
\* unclosed quote gives InvalidCommand; a name followed by something other than the
\* price keyword gives InvalidCommand; nothing after the name or after the price
\* keyword gives MissingPrice; a price token that is not a number, or a price <= 0,
\* gives InvalidPrice.
C22_FailureClasses ==
    (last.op = "ParseConfigCommand" /\ ExpectedFailure(last.arg) # "none")
    => last.err = ExpectedFailure(last.arg)

\* the reading of a normalised text by the grammar
\*   item WS item-name WS price WS price-value
\* with item-name a quoted string of non-quote characters or a single word without
\* quotes that is not the keyword price, and price-value a positive decimal numeral
GrammarReading(n) ==
    LET quoted == Len(n) >= 6 /\ n[6] = "\""
        close == IF quoted THEN IndexFrom(n, "\"", 7) ELSE 0
        sp == IF Len(n) >= 6 THEN IndexFrom(n, " ", 6) ELSE 0
        name == IF quoted THEN SubSeq(n, 7, close - 1) ELSE SubSeq(n, 6, sp - 1)
        after == IF quoted THEN close + 1 ELSE sp
        value == SubSeq(n, after + 7, Len(n))
    IN  [ok |-> /\ Len(n) >= 6
                /\ ToLower(SubSeq(n, 1, 4)) = <<"i","t","e","m">>
                /\ n[5] = " "
                /\ IF quoted THEN close >= 8
                   ELSE /\ sp >= 7
                        /\ \A i \in 6..(sp - 1) : n[i] # "\""
                        /\ ToLower(name) # <<"p","r","i","c","e">>
                /\ after + 7 <= Len(n)
                /\ n[after] = " "
                /\ ToLower(SubSeq(n, after + 1, after + 5)) = <<"p","r","i","c","e">>
                /\ n[after + 6] = " "
                /\ IsNumeral(value)
                /\ ~NumeralNotPositive(value),
        name |-> name,
        value |-> value]

\* C23: grammar completeness: a text item <name> price <price> (keywords in any case,
\* any whitespace around and between the parts) with a quoted or single-word name and a
\* positive decimal price parses successfully and gives the name as written and the
\* value of the price.
C23_GrammarComplete ==
    (last.op = "ParseConfigCommand" /\ GrammarReading(NormText(last.arg)).ok)
    => /\ last.err = ErrNone
       /\ last.name = GrammarReading(NormText(last.arg)).name
       /\ last.price = AmountCents(GrammarReading(NormText(last.arg)).value)

\* C24: grammar soundness: ParseConfigCommand succeeds only for a text of the form
\* item WS item-name WS price WS price-value, and then the name is not empty and the
\* price is above 0.
C24_GrammarSound ==
    (last.op = "ParseConfigCommand" /\ last.err = ErrNone)
    => /\ GrammarReading(NormText(last.arg)).ok
       /\ last.name # EmptyName
       /\ FGt0(last.price)

----------------------------------------------------------------------------
(* Properties of the command endpoint *)

Contains(s, sub) ==
    \E i \in 1..(Len(s) - Len(sub) + 1) : SubSeq(s, i, i + Len(sub) - 1) = sub

\* the text is handed to the configuration subcommand: it is not reset, status, empty
\* or help
IsConfigText(text) ==
    LET t == TrimSpace(ToLower(text))
    IN  t \notin {S_reset, S_status, <<>>} /\ ~HasPrefix(t, S_help)

\* the sentence that names the reason of a parse failure
FailureReason(err) ==
    CASE err = "ErrInvalidCommand" -> <<"T","h","e"," ","c","o","m","m","a","n","d"," ","f","o","r","m","a","t"," ","i","s"," ","i","n","v","a","l","i","d",".">>
      [] err = "ErrMissingItem" -> <<"P","l","e","a","s","e"," ","p","r","o","v","i","d","e"," ","a","n"," ","i","t","e","m"," ","n","a","m","e",".">>
      [] err = "ErrMissingPrice" -> <<"P","l","e","a","s","e"," ","p","r","o","v","i","d","e"," ","a"," ","p","r","i","c","e"," ","v","a","l","u","e",".">>
      [] OTHER -> <<"p","r","i","c","e"," ","m","u","s","t"," ","b","e"," ","a"," ","p","o","s","i","t","i","v","e"," ","n","u","m","b","e","r">>

S_UsageExample == <<"U","s","a","g","e"," ","e","x","a","m","p","l","e",":">>

\* C25: for every command text that fails to parse, the answer of the slash-command
\* handler holds the specific reason of the failure (for instance "price must be a
\* positive number") and the usage example.
C25_FailureExplained ==
    (/\ last.op = "CommandHandler"
     /\ last.out.status = 200
     /\ IsConfigText(last.arg)
     /\ ParseConfigCommand(last.arg).err # ErrNone)
    => /\ Contains(last.out.text, FailureReason(ParseConfigCommand(last.arg).err))
       /\ Contains(last.out.text, S_UsageExample)

S_ConfigurationUpdated == <<"C","o","n","f","i","g","u","r","a","t","i","o","n"," ","u","p","d","a","t","e","d","!">>

\* the answer to a successful configuration command
UpdatedAnswer(name, price) ==
    <<"C","o","n","f","i","g","u","r","a","t","i","o","n"," ","u","p","d","a","t","e","d","!"," ","N","o","w"," ","c","o","n","v","e","r","t","i","n","g"," ","d","o","l","l","a","r"," ","a","m","o","u","n","t","s"," ","t","o"," ">> \o name \o <<" ","(","a","t"," ","$">> \o FormatPrice(price) \o <<" ","e","a","c","h",")",".">>

\* the store with exactly one entry written: channel ch holds (name, price)
WithOneUpdate(m, ch, name, price) ==
    [c \in DOMAIN m \cup {ch} |-> IF c = ch THEN ChannelConfig(ch, name, price) ELSE m[c]]

\* the step is the /snagbot request with the text and channel recorded in last'
IsConfigRequest ==
    /\ last'.op = "CommandHandler"
    /\ last'.out.status = 200
    /\ IsConfigText(last'.arg)
    /\ CommandRequest("/snagbot", last'.arg, last'.ch)

\* C26 as stated: a configuration command changes the store only on success: when the
\* text fails to parse the store is unchanged and the answer does not hold
\* "Configuration updated!"; when it parses, exactly one update with the parsed name and
\* price is applied to the channel and the answer is the confirmation.
C26_StoreChangedOnSuccess ==
    [][IsConfigRequest =>
        LET r == ParseConfigCommand(last'.arg)
        IN  IF r.err # ErrNone
            THEN /\ cmdConfigs' = cmdConfigs
                 /\ ~Contains(last'.out.text, S_ConfigurationUpdated)
            ELSE /\ cmdConfigs' = WithOneUpdate(cmdConfigs, last'.ch, r.ItemName, r.ItemPrice)
                 /\ last'.out.text = UpdatedAnswer(r.ItemName, r.ItemPrice)]_vars

\* C26 amended: as above, but the update is applied and confirmed when the text parses
\* and the channel id is not empty; for an empty channel id the store refuses the
\* update, stays unchanged, and the answer does not hold "Configuration updated!".
C26_StoreChangedOnSuccessAmended ==
    [][IsConfigRequest =>
        LET r == ParseConfigCommand(last'.arg)
        IN  IF r.err # ErrNone \/ last'.ch = ""
            THEN /\ cmdConfigs' = cmdConfigs
                 /\ ~Contains(last'.out.text, S_ConfigurationUpdated)
            ELSE /\ cmdConfigs' = WithOneUpdate(cmdConfigs, last'.ch, r.ItemName, r.ItemPrice)
                 /\ last'.out.text = UpdatedAnswer(r.ItemName, r.ItemPrice)]_vars

\* a configuration command has parsed and has been applied to a channel
C26_Witness ==
    /\ last.op = "CommandHandler"
    /\ last.out.status = 200
    /\ IsConfigText(last.arg)
    /\ ParseConfigCommand(last.arg).err = ErrNone
    /\ last.ch # ""
    /\ last.ch \in DOMAIN cmdConfigs
    /\ Contains(last.out.text, S_ConfigurationUpdated)

S_Thats10BunningsSnags == <<"T","h","a","t","'","s"," ","1","0"," ","B","u","n","n","i","n","g","s"," ","s","n","a","g","s","!">>

\* C28: with the configuration config.New() gives and no custom config for the channel,
\* "This would cost $35" is answered "That's 10 Bunnings snags!" and "This costs $0" is
\* answered "That wouldn't even buy a single Bunnings snag!".
C28_DefaultReplies ==
    (/\ last.op = "ProcessMessageEvent"
     /\ Converted(last.arg)
     /\ last.arg.Channel # ""
     /\ last.arg.Channel \notin DOMAIN configs)
    => /\ last.arg.Text = T_Cost35
          => posted = <<SlackResponse(last.arg.Channel, S_Thats10BunningsSnags,
                                      last.arg.TimeStamp)>>
       /\ last.arg.Text = T_Cost0
          => posted = <<SlackResponse(last.arg.Channel, S_ZeroBunningsSnag,
                                      last.arg.TimeStamp)>>

----------------------------------------------------------------------------
(* Properties of the message pipeline when a call fails *)

\* C27: when the store's GetConfig fails while a message is processed, the message is
\* still converted, with the system default item and price, and ProcessMessageEvent
\* hands no error to the event-handling goroutine.
C27_ReadFailureFallsBack ==
    (/\ last.op = "ProcessMessageEvent"
     /\ Converted(last.arg)
     /\ StoreGetConfig(last.arg.Channel)[2] # ErrNone)
    => /\ posted = RepliesWith(last.arg, SystemDefault(last.arg.Channel).ItemName,
                               SystemDefault(last.arg.Channel).ItemPrice)
       /\ last.err = ErrNone

\* C30: ProcessMessageEvent calls api.PostMessage at most once for every event; and for
\* a message that is not from a bot, not an edit and holds a dollar amount, when
\* GetConfig and PostMessage succeed, it posts exactly one reply and returns no error.
C30_AtMostOnePost ==
    [][(/\ last'.op = "ProcessMessageEvent"
        /\ \E apiErr \in ApiErrors : HandleMessageEvent(last'.arg, apiErr))
       => /\ Len(posted') <= 1
          /\ (/\ Converted(last'.arg)
              /\ ExtractDollarValues(last'.arg.Text) # <<>>
              /\ StoreGetConfig(last'.arg.Channel)[2] = ErrNone
              /\ HandleMessageEvent(last'.arg, ErrNone))
             => /\ Len(posted') = 1
                /\ last'.err = ErrNone]_vars

----------------------------------------------------------------------------
(* Properties of the status command *)

\* the answer to status for a channel without a custom config
DefaultStatusAnswer(c) ==
    S_UsingDefault \o SystemDefault(c).ItemName \o S_AtDollar
    \o FormatPrice(SystemDefault(c).ItemPrice) \o S_Each

\* the answer to status for a channel that holds the custom config (name, price)
CustomStatusAnswer(name, price) ==
    S_Current \o name \o S_AtDollar \o FormatPrice(price) \o S_Each

\* the <<name, price>> pairs the requests of the model store
StatusUpdates ==
    {<<ParseConfigCommand(x).ItemName, ParseConfigCommand(x).ItemPrice>> :
        x \in StatusCommandTexts \ {X_Reset}}

\* C29: the answer of the status command describes one state of the store: "This
\* channel is using the default configuration" comes with the default name and price,
\* "Current configuration" with a stored custom name and price, also when updates and
\* resets of the channel run next to the status command; and the steps of the status
\* command leave the store unchanged.
C29_StatusDescribesOneState ==
    /\ [](((/\ last.op = "CommandHandler"
            /\ last.arg = X_Status
            /\ last.err = ErrNone)
           => \/ last.out.text = DefaultStatusAnswer(last.ch)
              \/ \E u \in StatusUpdates : last.out.text = CustomStatusAnswer(u[1], u[2])))
    /\ [][(\E t \in Threads :
               \/ StatusConfigExists(t)
               \/ \E c \in {ConcChannel, ""} : StatusGetConfig(t, c))
          => cmdConfigs' = cmdConfigs]_vars

====
